---------------------------- MODULE Spec2Model ----------------------------
(***************************************************************************)
(* Model of the dependency-resolution agent of foggyabir/agent_builder:    *)
(*   graphs/graph_dependency_resolver.py                                   *)
(*     GraphDependencyResolver   (one tool-calling conversation per file)  *)
(*     DependencyResolverWrapper (bounded fan-out over a list of files)    *)
(* The language model, the prompt store and the file system are the        *)
(* environment: each of their answers is a nondeterministic choice.        *)
(***************************************************************************)
EXTENDS Integers, Sequences, FiniteSets, TLC

(***************************************************************************)
(* Bounds of the model.                                                    *)
(***************************************************************************)
MaxFiles == 2          \* longest input list `files`
MaxConcurrency == 2    \* largest max_concurrency
MaxToolCalls == 2      \* tool calls the model requests in one batch
MaxWalked == 3         \* the entries the walk of the source directory yields
MaxDepth == 2          \* most components of source_dir, target_dir, output_subdir
MaxRuns == 3           \* the runs made of one compiled graph
MaxTurns == 2          \* the turns a maximum-turns guard would be set to allow
MaxPathLen == 3        \* most components of a relative_path argument
MaxLines == 3          \* most lines of a file, largest limit
MaxEntries == 4        \* most entries below a searched directory
MaxResults == 2        \* largest FileNameSearchTool.max_results

VARIABLES
    files,              \* ainvoke's argument: the list of target files
    max_concurrency,    \* DependencyResolverWrapper.max_concurrency
    sem_value,          \* asyncio.Semaphore._value
    sem_waiters,        \* asyncio.Semaphore._waiters (FIFO of sessions)
    sem_woken,          \* waiters whose future has been set by a release
    pc,                 \* where each _ainvoke_single coroutine stands
    file_content,       \* GraphDependencyResolver.file_content of each driver
    messages,           \* ResolverState.messages of each session
    dependencies,       \* ResolverState.dependencies of each session
    pending,            \* tool_node: the result slot of every call of the turn
    failed_calls,       \* tool_node: the calls whose try block raised
    human_prompt,       \* node: the file text in the HumanMessage last sent
    llm_input,          \* node: the list of messages last given to llm.ainvoke
    ret,                \* what each _ainvoke_single returned
    raised,             \* the step whose exception ended the session ("" if none)
    llm_calls,          \* llm.ainvoke invocations made by each session
    dispatches,         \* tool_node executions of each session
    reads,              \* read_file_tool.arun invocations of each session
    response,           \* what llm.ainvoke last returned to each session
    finished,           \* the sessions that have returned, in completion order
    calls_issued,       \* tool calls the model has requested in the batch
    batch,              \* where ainvoke stands: running, returned, raised
    deps,               \* ainvoke's return value
    payload,            \* the reconciliation alone: result.get('dependencies')
    outcome,            \* the reconciliation alone: what _ainvoke_single returns
    reconciler,         \* the reconciliation alone: called, returned, idle
    tool,               \* a tool call alone: the tool's name
    relative_path,      \* a tool call alone: the relative_path argument
    offset,             \* a tool call alone: the offset argument
    limit,              \* a tool call alone: the limit argument (None or int)
    total_lines,        \* a tool call alone: the lines of the files on disk
    tool_pc,            \* a tool call alone: called, checked, returned, raised
    target_path,        \* a tool call alone: the path is_path_safe resolved
    observation,        \* a tool call alone: the string the tool returned
    io,                 \* a tool call alone: the paths read or walked
    entries,            \* a search alone: what target_path.rglob("*") yields
    max_results,        \* a search alone: FileNameSearchTool.max_results
    search_result,      \* a search alone: what _search_files returned, formatted
    driver_content,     \* one driver reused: GraphDependencyResolver.file_content
    target_file,        \* one driver reused: state['target_file'] of the run
    run_prompt,         \* one driver reused: the file text in the run's last HumanMessage
    run_turns,          \* one driver reused: the model invocations of the run
    earlier_targets,    \* one driver reused: the target files of the runs so far
    graph_pc,           \* one driver reused: built, llm, tool_node, ended, raised
    walked,             \* the preprocessor: the entries os.walk yields, in order
    prep_concurrency,   \* the preprocessor: FilePreprocessor's max_concurrency
    limiter,            \* the preprocessor: self.semaphore (value, waiters, woken)
    walk_index,         \* the preprocessor: the entry the walk of process_async is at
    expected_results,   \* the preprocessor: process_async's expected_results
    result_queue,       \* the preprocessor: the items of result_queue
    worker,             \* the preprocessor: where each _process_single_file task stands
    collected,          \* the preprocessor: _collect_results' processed and ignored lists
    collector_pc,       \* the preprocessor: none, collecting, done
    prep_pc,            \* the preprocessor: idle, walking, gathering, collecting, returned
    source_dir,         \* the cleanup: FilePreprocessor.source_dir (resolved)
    target_dir,         \* the cleanup: FilePreprocessor.target_dir (resolved)
    output_subdir,      \* the cleanup: FilePreprocessor.output_subdir
    output_exists,      \* the cleanup: whether output_root exists on disk
    removed,            \* the cleanup: the directory shutil.rmtree removed, if any
    clean_pc            \* the cleanup: idle, called, returned

\* the state of a batch
batch_vars == <<files, max_concurrency, sem_value, sem_waiters, sem_woken, pc,
                file_content, messages, dependencies, pending, failed_calls,
                human_prompt, llm_input, ret, raised, llm_calls, dispatches, reads,
                response, finished,
                calls_issued, batch, deps>>

\* the state of a reconciliation taken alone
reconciler_vars == <<payload, outcome, reconciler>>

\* the state of a tool call taken alone
tool_vars == <<tool, relative_path, offset, limit, total_lines, tool_pc,
               target_path, observation, io>>

\* the state of a search taken alone
search_vars == <<entries, max_results, search_result>>

\* the state of one driver whose compiled graph is run several times
graph_vars == <<driver_content, target_file, run_prompt, run_turns,
                earlier_targets, graph_pc>>

\* the state of a run of FilePreprocessor.process_async
prep_vars == <<walked, prep_concurrency, limiter, walk_index, expected_results,
               result_queue, worker, collected, collector_pc, prep_pc>>

\* the state of FilePreprocessor._cleanup_target
clean_vars == <<source_dir, target_dir, output_subdir, output_exists, removed,
                clean_pc>>

vars == <<batch_vars, reconciler_vars, tool_vars, search_vars, graph_vars, prep_vars, clean_vars>>

(***************************************************************************)
(* Values.                                                                 *)
(***************************************************************************)
\* Python's None
NoneValue == [form |-> "None"]

\* a slot that holds no value yet (a coroutine that has not returned, a tool
\* call that has not completed)
NotYet == [form |-> "NotYet"]

\* the names of the working-root files a batch may be asked to analyse
FileName(i) == <<"file", i>>

\* JSON values: strings and lists carry their type, as pydantic checks it
JStr(s) == [t |-> "str", v |-> s]

JList(l) == [t |-> "list", v |-> l]

\* FileDependency: the five required fields
FileDependencyFields ==
    {"target_file_path", "internal_deps", "external_deps", "type_of_file", "name"}

\* the type FileDependency declares for each field
FieldType(k) == IF k \in {"internal_deps", "external_deps"} THEN "list" ELSE "str"

\* a str: `text` is its characters (as tokens), `json` what json.loads makes
\* of it: NotJson when json.loads raises
Str(text, json) == [form |-> "str", text |-> text, json |-> json]

NotJson == [ok |-> FALSE, obj |-> <<>>]

Json(obj) == [ok |-> TRUE, obj |-> obj]

\* a FileDependency instance holding `fields`
FileDependency(fields) == [form |-> "FileDependency", fields |-> fields]

\* a list of content blocks (AIMessage.content may be a list)
ContentBlocks == [form |-> "list"]

\* the object a model that answers well emits for file f
GoodObject(f) ==
    [k \in FileDependencyFields |->
        CASE k = "target_file_path" -> JStr(f)
          [] k = "internal_deps" -> JList(<<"./a", "./b", "./a">>)
          [] k = "external_deps" -> JList(<<"rxjs">>)
          [] k = "type_of_file" -> JStr("Component")
          [] OTHER -> JStr("AppComponent")]

\* the final payloads the model client may answer with for file f
Payloads(f) ==
    { Str(<<"{good}">>, Json(GoodObject(f))),
      Str(<<"not json">>, NotJson),
      ContentBlocks }

(***************************************************************************)
(* Messages (langchain.messages).                                          *)
(***************************************************************************)
EmptyText == Str(<<>>, NotJson)

ToolCall(id, name) == [id |-> id, name |-> name]

AIMessage(content, tool_calls) ==
    [type |-> "ai", content |-> content, tool_calls |-> tool_calls]

ToolMessage(content, tool_call_id) ==
    [type |-> "tool", content |-> content, tool_call_id |-> tool_call_id]

SystemMessage(content) == [type |-> "system", content |-> content]

HumanMessage(content) == [type |-> "human", content |-> content]

\* prompt_registry.get_prompt(prompt_registry.file_dependency_pmt)
SysPromptText == Str(<<"re/pmt_dep_resolver.md">>, NotJson)

\* f"Analyze the file content and extract dependencies:\n\n{file_content}"
HumanPromptText(content) ==
    Str(<<"Analyze the file content and extract dependencies:", content>>, NotJson)

\* the tool names a model may put in a tool call: the tools package
ToolNames == {"FileNameSearchTool", "ReadFileTool"}

\* the tools of the tools package (tools/__init__.py)
PackageToolNames ==
    {"FileNameSearchTool", "ListDirectoryTool", "MermaidValidationTool",
     "ReadFileTool", "WriteFileTool", "SearchWorkspaceWithRipgrepTool"}

\* mutant of tools_by_name: the write tool is registered too
tools_by_name_with_writer == {"FileNameSearchTool", "WriteFileTool"}

\* mutant of tools_by_name: the read tool is registered too
tools_by_name_with_reader == {"FileNameSearchTool", "ReadFileTool"}

\* GraphDependencyResolver.tools_by_name: the names of node_tools
tools_by_name == {"FileNameSearchTool"}

\* what read_file_tool.arun returns for file f: the content, or an error string
FileText(f) == Str(<<"--- START OF FILE CONTENT FOR ", f>>, NotJson)

ReadErrorText(f) == Str(<<"ERROR: File not found at path ", f>>, NotJson)

\* what FileNameSearchTool.ainvoke returns when it returns
SearchObservation == Str(<<"File search results">>, NotJson)

\* what the tool called `name` returns when it returns; the read tool returns
\* the content of the file the call names, a file that is no session's target
ObservationOf(name) ==
    IF name = "FileNameSearchTool" THEN SearchObservation
    ELSE IF name = "ReadFileTool" THEN FileText(FileName(0))
    ELSE Str(<<name, " output">>, NotJson)

\* what a tool of the package does to the file system when it runs
ToolEffect(name) ==
    CASE name = "FileNameSearchTool" -> "search"
      [] name = "ReadFileTool" -> "read"
      [] name = "ListDirectoryTool" -> "list"
      [] name = "SearchWorkspaceWithRipgrepTool" -> "grep"
      [] name = "WriteFileTool" -> "write"
      [] OTHER -> "validate"

\* f"Tool error: {str(e)}"
ToolErrorText(e) == Str(<<"Tool error: ", e>>, NotJson)

(***************************************************************************)
(* The reconciliation of _ainvoke_single (lines 105-117).                  *)
(***************************************************************************)
\* mutant of ValidationFails: the fields are optional, only a present field
\* of the wrong type is rejected
ValidationFailsOnTypeOnly(obj) ==
    \E k \in FileDependencyFields \cap DOMAIN obj : obj[k].t # FieldType(k)

\* FileDependency.model_validate(obj) raises
ValidationFails(obj) ==
    \E k \in FileDependencyFields :
        \/ k \notin DOMAIN obj
        \/ obj[k].t # FieldType(k)

\* mutant of ModelValidate: fields the schema does not declare are kept
ModelValidateKeepsExtra(obj) == FileDependency(obj)

\* FileDependency.model_validate(obj): the five declared fields, the rest ignored
ModelValidate(obj) ==
    FileDependency([k \in FileDependencyFields \cap DOMAIN obj |-> obj[k]])

\* the lines after graph.ainvoke raise (json.loads or model_validate)
ReconcileRaises(dep) ==
    /\ dep.form = "str"
    /\ \/ ~dep.json.ok
       \/ ValidationFails(dep.json.obj)

\* mutant of Reconcile: text that json.loads rejects is handed back as it is
ReconcileKeepsText(dep) ==
    IF dep.form = "str"
    THEN IF ~dep.json.ok THEN dep
         ELSE IF ValidationFails(dep.json.obj) THEN NoneValue
         ELSE ModelValidate(dep.json.obj)
    ELSE IF dep.form = "FileDependency" THEN dep
    ELSE NoneValue

\* mutant of Reconcile: a payload of another kind is handed back as it is
ReconcilePassesThrough(dep) ==
    IF dep.form = "str"
    THEN IF ReconcileRaises(dep) THEN NoneValue ELSE ModelValidate(dep.json.obj)
    ELSE dep

\* mutant of Reconcile: a str payload is not parsed
ReconcileUnparsed(dep) ==
    IF dep.form = "FileDependency" THEN dep ELSE NoneValue

\* the value _ainvoke_single returns for result['dependencies'] = dep
Reconcile(dep) ==
    IF dep.form = "str"
    THEN IF ReconcileRaises(dep) THEN NoneValue ELSE ModelValidate(dep.json.obj)
    ELSE IF dep.form = "FileDependency" THEN dep
    ELSE NoneValue

(***************************************************************************)
(* asyncio.Semaphore (Python 3.12: the f-strings of the tools need it).    *)
(***************************************************************************)
RECURSIVE FirstUnwoken(_, _)
\* the first waiter whose future is not done; 0 when there is none
FirstUnwoken(waiters, woken) ==
    IF waiters = <<>> THEN 0
    ELSE IF Head(waiters) \notin woken THEN Head(waiters)
    ELSE FirstUnwoken(Tail(waiters), woken)

\* mutant of Locked: a semaphore that refuses only below zero
LockedBelowZero(value, waiters) == value < 0

\* Semaphore.locked(): no free slot, or somebody is queued
Locked(value, waiters) == value = 0 \/ waiters # <<>>

\* Semaphore.release(): _value += 1, then _wake_up_next() hands the slot to
\* the first waiter
SemRelease(value, waiters, woken) ==
    LET w == FirstUnwoken(waiters, woken)
    IN  IF w = 0 THEN [value |-> value + 1, woken |-> woken]
        ELSE [value |-> value, woken |-> woken \cup {w}]

RECURSIVE WakeWhile(_, _, _)
\* the end of Semaphore.acquire(): while self._value > 0: _wake_up_next()
WakeWhile(value, waiters, woken) ==
    LET w == FirstUnwoken(waiters, woken)
    IN  IF value > 0 /\ w # 0
        THEN WakeWhile(value - 1, waiters, woken \cup {w})
        ELSE [value |-> value, woken |-> woken]

\* waiters without session i (self._waiters.remove(fut))
RECURSIVE Remove(_, _)
Remove(waiters, i) ==
    IF waiters = <<>> THEN <<>>
    ELSE IF Head(waiters) = i THEN Tail(waiters)
    ELSE <<Head(waiters)>> \o Remove(Tail(waiters), i)

(***************************************************************************)
(* The batch: DependencyResolverWrapper.ainvoke and _ainvoke_single.       *)
(***************************************************************************)
Sessions == DOMAIN files

\* the tool-call lists one assistant turn of session i may carry: one call or
\* more, any tool name, identifiers assigned by the model client
ToolCallLists(i) ==
    UNION { { [k \in 1..c |-> ToolCall(<<Len(messages[i]), k>>, names[k])] :
                names \in [1..c -> ToolNames] } :
            c \in 1..(MaxToolCalls - calls_issued) }

\* mutant of SemaphoreInit: the limiter is given one slot at least
SemaphoreInitAtLeastOne(n) == IF n < 1 THEN 1 ELSE n

\* line 120: asyncio.Semaphore(self.max_concurrency), _value = value
SemaphoreInit(n) == n

\* no reconciliation is looked at alone
ReconcilerIdle ==
    /\ payload = NoneValue
    /\ outcome = NotYet
    /\ reconciler = "idle"

\* a path: absolute or not, and its components
PathOf(absolute, parts) == [absolute |-> absolute, parts |-> parts]

\* no tool call is looked at alone
ToolIdle ==
    /\ tool = ""
    /\ relative_path = PathOf(FALSE, <<>>)
    /\ offset = 1
    /\ limit = <<>>
    /\ total_lines = 0
    /\ tool_pc = "idle"
    /\ target_path = <<>>
    /\ observation = NotYet
    /\ io = {}

\* no search is looked at alone
SearchIdle ==
    /\ entries = <<>>
    /\ max_results = 0
    /\ search_result = NotYet

\* no driver is looked at alone
GraphIdle ==
    /\ driver_content = NoneValue
    /\ target_file = <<>>
    /\ run_prompt = NoneValue
    /\ run_turns = 0
    /\ earlier_targets = {}
    /\ graph_pc = "idle"

\* no preprocessor is running
PrepIdle ==
    /\ walked = <<>>
    /\ prep_concurrency = 0
    /\ limiter = [value |-> 0, waiters |-> <<>>, woken |-> {}]
    /\ walk_index = 0
    /\ expected_results = 0
    /\ result_queue = <<>>
    /\ worker = <<>>
    /\ collected = [processed |-> <<>>, ignored |-> <<>>]
    /\ collector_pc = "none"
    /\ prep_pc = "idle"

\* no cleanup is looked at alone
CleanIdle ==
    /\ source_dir = <<>>
    /\ target_dir = <<>>
    /\ output_subdir = [absolute |-> FALSE, parts |-> <<>>]
    /\ output_exists = FALSE
    /\ removed = <<>>
    /\ clean_pc = "idle"

Init ==
    /\ files \in { [i \in 1..n |-> FileName(i)] : n \in 0..MaxFiles }
    /\ max_concurrency \in 0..MaxConcurrency
    /\ sem_value = SemaphoreInit(max_concurrency)
    /\ sem_waiters = <<>>
    /\ sem_woken = {}
    /\ pc = [i \in Sessions |-> "new"]
    /\ file_content = [i \in Sessions |-> NoneValue]
    /\ messages = [i \in Sessions |-> <<>>]
    /\ dependencies = [i \in Sessions |-> NoneValue]
    /\ pending = [i \in Sessions |-> <<>>]
    /\ failed_calls = [i \in Sessions |-> {}]
    /\ human_prompt = [i \in Sessions |-> NoneValue]
    /\ llm_input = [i \in Sessions |-> <<>>]
    /\ ret = [i \in Sessions |-> NotYet]
    /\ raised = [i \in Sessions |-> ""]
    /\ llm_calls = [i \in Sessions |-> 0]
    /\ dispatches = [i \in Sessions |-> 0]
    /\ reads = [i \in Sessions |-> 0]
    /\ response = [i \in Sessions |-> NoneValue]
    /\ finished = <<>>
    /\ calls_issued = 0
    /\ batch = "running"
    /\ deps = NotYet
    /\ ReconcilerIdle
    /\ ToolIdle
    /\ SearchIdle
    /\ GraphIdle
    /\ PrepIdle
    /\ CleanIdle

\* groups of variables, for the frames of the actions: what no step of a
\* batch changes (its arguments, and what is not part of the batch)
inputs == <<files, max_concurrency, reconciler_vars, tool_vars, search_vars, graph_vars, prep_vars, clean_vars>>

semaphore == <<sem_value, sem_waiters, sem_woken>>

locals == <<file_content, messages, dependencies, pending, failed_calls,
            human_prompt, llm_input>>

counters == <<llm_calls, dispatches, reads, response, calls_issued>>

\* mutant of ReleaseSlot: the block is left without a release
ReleaseSlotSkipped == UNCHANGED semaphore

\* the exit of `async with semaphore` by session i
ReleaseSlot ==
    LET r == SemRelease(sem_value, sem_waiters, sem_woken)
    IN  /\ sem_value' = r.value
        /\ sem_woken' = r.woken
        /\ UNCHANGED sem_waiters

\* the locals of a coroutine that has returned are gone: the driver with its
\* file_content, the graph state with its messages (`dependencies` is kept
\* as the record of what graph.ainvoke handed back)
DropLocals(i) ==
    /\ file_content' = [file_content EXCEPT ![i] = NoneValue]
    /\ messages' = [messages EXCEPT ![i] = <<>>]
    /\ pending' = [pending EXCEPT ![i] = <<>>]
    /\ failed_calls' = [failed_calls EXCEPT ![i] = {}]
    /\ human_prompt' = [human_prompt EXCEPT ![i] = NoneValue]
    /\ llm_input' = [llm_input EXCEPT ![i] = <<>>]

\* mutant of SessionFails: the slot is released on the normal path only
SessionFailsHoldingSlot(i, step) ==
    /\ pc' = [pc EXCEPT ![i] = "done"]
    /\ ret' = [ret EXCEPT ![i] = NoneValue]
    /\ raised' = [raised EXCEPT ![i] = step]
    /\ finished' = Append(finished, i)
    /\ DropLocals(i)
    /\ UNCHANGED <<semaphore, dependencies>>

\* an exception raised inside the try block by step `step`: the except
\* clause returns None, the `async with` has released the slot
SessionFails(i, step) ==
    /\ pc' = [pc EXCEPT ![i] = "done"]
    /\ ret' = [ret EXCEPT ![i] = NoneValue]
    /\ raised' = [raised EXCEPT ![i] = step]
    /\ finished' = Append(finished, i)
    /\ ReleaseSlot
    /\ DropLocals(i)
    /\ UNCHANGED dependencies

\* gather starts the children in the order of `files`: each runs to its first
\* suspension before the next one starts
NextToStart(i) ==
    /\ pc[i] = "new"
    /\ \A j \in Sessions : j < i => pc[j] # "new"

\* a session that resumes after a suspension: the first steps of all the
\* children are ahead of it in the loop's queue. Once ainvoke has raised,
\* its caller's asyncio.run (examples/dep_test.py, line 38) tears the loop
\* down and nothing resumes
Resumes(i, at) ==
    /\ pc[i] = at
    /\ \A j \in Sessions : pc[j] # "new"
    /\ batch # "raised"

\* line 101: GraphDependencyResolver(...).build() raises, outside the try
BuildFails(i) ==
    /\ NextToStart(i)
    /\ pc' = [pc EXCEPT ![i] = "raised"]
    /\ raised' = [raised EXCEPT ![i] = "build"]
    /\ UNCHANGED <<inputs, semaphore, locals, counters, ret, finished,
                   batch, deps>>

\* lines 101-104: the driver is built, the semaphore is free: the session is
\* admitted and graph.ainvoke starts
StartAdmitted(i) ==
    /\ NextToStart(i)
    /\ ~Locked(sem_value, sem_waiters)
    /\ sem_value' = sem_value - 1
    /\ pc' = [pc EXCEPT ![i] = "llm"]
    /\ UNCHANGED <<inputs, sem_waiters, sem_woken, locals, counters, ret,
                   raised, finished, batch, deps>>

\* lines 101-103: the driver is built, the semaphore is locked: the session
\* queues
StartQueued(i) ==
    /\ NextToStart(i)
    /\ Locked(sem_value, sem_waiters)
    /\ sem_waiters' = Append(sem_waiters, i)
    /\ pc' = [pc EXCEPT ![i] = "waiting"]
    /\ UNCHANGED <<inputs, sem_value, sem_woken, locals, counters, ret,
                   raised, finished, batch, deps>>

\* line 103: a queued session whose future a release has set resumes in
\* Semaphore.acquire and enters the block
Admit(i) ==
    /\ Resumes(i, "waiting")
    /\ i \in sem_woken
    /\ LET q == Remove(sem_waiters, i)
           r == WakeWhile(sem_value, q, sem_woken \ {i})
       IN  /\ sem_waiters' = q
           /\ sem_value' = r.value
           /\ sem_woken' = r.woken
    /\ pc' = [pc EXCEPT ![i] = "llm"]
    /\ UNCHANGED <<inputs, locals, counters, ret, raised, finished,
                   batch, deps>>

(***************************************************************************)
(* GraphDependencyResolver.node                                            *)
(***************************************************************************)
\* mutant of ReadFile: no test of self.file_content, the file is read on
\* every turn
ReadFileEveryTurn(i) ==
    /\ Resumes(i, "llm")
    /\ reads' = [reads EXCEPT ![i] = @ + 1]
    /\ \E text \in {FileText(files[i]), ReadErrorText(files[i])} :
            file_content' = [file_content EXCEPT ![i] = text]
    /\ UNCHANGED <<inputs, semaphore, pc, messages, dependencies, pending,
                   failed_calls, human_prompt, llm_input, llm_calls, dispatches,
                   response,
                   calls_issued, ret, raised, finished, batch, deps>>

\* mutant of ReadFile: one driver serves every file, what it memoizes is
\* the content for all of them
ReadFileSharedDriver(i) ==
    /\ Resumes(i, "llm")
    /\ file_content[i] = NoneValue
    /\ reads' = [reads EXCEPT ![i] = @ + 1]
    /\ \E text \in {FileText(files[i]), ReadErrorText(files[i])} :
            file_content' = [j \in Sessions |-> text]
    /\ UNCHANGED <<inputs, semaphore, pc, messages, dependencies, pending,
                   failed_calls, human_prompt, llm_input, llm_calls, dispatches,
                   response, calls_issued, ret, raised, finished, batch, deps>>

\* mutant of ReadFile: an error string from the read ends the session with
\* None, the model is not invoked
ReadFileErrorEndsSession(i) ==
    /\ Resumes(i, "llm")
    /\ file_content[i] = NoneValue
    /\ reads' = [reads EXCEPT ![i] = @ + 1]
    /\ \/ /\ file_content' = [file_content EXCEPT ![i] = FileText(files[i])]
          /\ UNCHANGED <<semaphore, pc, messages, dependencies, pending,
                         failed_calls, human_prompt, llm_input, ret, raised,
                         finished>>
       \/ SessionFails(i, "")
    /\ UNCHANGED <<inputs, llm_calls, dispatches, response, calls_issued,
                   batch, deps>>

\* line 32: read_file_tool.arun returns the content or an error string, and
\* node memoizes what it got
ReadFile(i) ==
    /\ Resumes(i, "llm")
    /\ file_content[i] = NoneValue
    /\ reads' = [reads EXCEPT ![i] = @ + 1]
    /\ \E text \in {FileText(files[i]), ReadErrorText(files[i])} :
            file_content' = [file_content EXCEPT ![i] = text]
    /\ UNCHANGED <<inputs, semaphore, pc, messages, dependencies, pending,
                   failed_calls, human_prompt, llm_input, llm_calls, dispatches,
                   response,
                   calls_issued, ret, raised, finished, batch, deps>>

\* line 32: read_file_tool.arun raises
ReadFails(i) ==
    /\ Resumes(i, "llm")
    /\ file_content[i] = NoneValue
    /\ reads' = [reads EXCEPT ![i] = @ + 1]
    /\ SessionFails(i, "read")
    /\ UNCHANGED <<inputs, llm_calls, dispatches, response, calls_issued,
                   batch, deps>>

\* line 33: prompt_registry.get_prompt raises (the prompt file cannot be opened)
PromptFails(i) ==
    /\ Resumes(i, "llm")
    /\ file_content[i] # NoneValue
    /\ SessionFails(i, "prompt")
    /\ UNCHANGED <<inputs, counters, batch, deps>>

\* mutant of ModelFails: the failure is caught in node and handed to the
\* conversation as an assistant message
ModelFailsSwallowed(i) ==
    /\ Resumes(i, "llm")
    /\ file_content[i] # NoneValue
    /\ llm_calls' = [llm_calls EXCEPT ![i] = @ + 1]
    /\ raised' = [raised EXCEPT ![i] = "model"]
    /\ messages' = [messages EXCEPT
                        ![i] = @ \o <<AIMessage(ToolErrorText("model"), <<>>)>>]
    /\ UNCHANGED <<inputs, semaphore, pc, file_content, dependencies, pending,
                   failed_calls, human_prompt, llm_input, dispatches, reads,
                   response,
                   calls_issued, ret, finished, batch, deps>>

\* line 41: llm.ainvoke raises
ModelFails(i) ==
    /\ Resumes(i, "llm")
    /\ file_content[i] # NoneValue
    /\ llm_calls' = [llm_calls EXCEPT ![i] = @ + 1]
    /\ SessionFails(i, "model")
    /\ UNCHANGED <<inputs, dispatches, reads, response, calls_issued,
                   batch, deps>>

\* mutant of LlmInput: the model is given the prompts and the last message
LlmInputLastMessage(content, history) ==
    <<SystemMessage(SysPromptText), HumanMessage(HumanPromptText(content))>>
        \o (IF history = <<>> THEN <<>> ELSE <<history[Len(history)]>>)

\* line 41: [sys_prompt, human_prompt] + state["messages"]
LlmInput(content, history) ==
    <<SystemMessage(SysPromptText), HumanMessage(HumanPromptText(content))>>
        \o history

\* mutant of NodeDependencies: node returns the content of every turn as
\* `dependencies`
NodeDependenciesEveryTurn(old, turn) == turn.content

\* what node returns for an assistant turn: the update of `dependencies`
\* (lines 42-45)
NodeDependencies(old, turn) ==
    IF turn.tool_calls # <<>> THEN old ELSE turn.content

\* mutant of should_continue: the route to tool_node is never taken
should_continue_always_ends(last_message) == "END"

\* should_continue (lines 71-80)
should_continue(last_message) ==
    IF last_message.tool_calls # <<>> THEN "tool_node" ELSE "END"

\* lines 41-45 for the assistant turn `turn`, the reducer of `messages`, and
\* the route should_continue picks. To tool_node: one run_tool per call is
\* started. To END (lines 104-117): graph.ainvoke returns its state, the
\* payload is reconciled, the slot released and the value returned
ModelResponds(i, turn) ==
    /\ Resumes(i, "llm")
    /\ file_content[i] # NoneValue
    /\ llm_calls' = [llm_calls EXCEPT ![i] = @ + 1]
    /\ response' = [response EXCEPT ![i] = turn]
    /\ calls_issued' = calls_issued + Len(turn.tool_calls)
    /\ LET dep == NodeDependencies(dependencies[i], turn)
       IN  /\ dependencies' = [dependencies EXCEPT ![i] = dep]
           /\ IF should_continue(turn) = "tool_node"
              THEN /\ messages' = [messages EXCEPT ![i] = @ \o <<turn>>]
                   /\ pending' = [pending EXCEPT
                                     ![i] = [k \in DOMAIN turn.tool_calls |-> NotYet]]
                   /\ dispatches' = [dispatches EXCEPT ![i] = @ + 1]
                   /\ pc' = [pc EXCEPT ![i] = "tools"]
                   /\ human_prompt' = [human_prompt EXCEPT
                                            ![i] = file_content[i]]
                   /\ llm_input' = [llm_input EXCEPT
                            ![i] = LlmInput(file_content[i], messages[i])]
                   /\ UNCHANGED <<semaphore, file_content, failed_calls, ret,
                                  raised, finished>>
              ELSE /\ ret' = [ret EXCEPT ![i] = Reconcile(dep)]
                   /\ raised' = [raised EXCEPT
                                    ![i] = IF ReconcileRaises(dep)
                                           THEN "reconcile" ELSE @]
                   /\ pc' = [pc EXCEPT ![i] = "done"]
                   /\ finished' = Append(finished, i)
                   /\ ReleaseSlot
                   /\ DropLocals(i)
                   /\ UNCHANGED dispatches
    /\ UNCHANGED <<inputs, reads, batch, deps>>

\* the model client answers with an assistant turn that carries tool calls
ModelRequestsTools(i) ==
    \E calls \in ToolCallLists(i) : ModelResponds(i, AIMessage(EmptyText, calls))

\* the model client answers with an assistant turn that carries no tool call
ModelAnswers(i) ==
    \E content \in Payloads(files[i]) : ModelResponds(i, AIMessage(content, <<>>))

(***************************************************************************)
(* GraphDependencyResolver.tool_node                                       *)
(***************************************************************************)
\* the calls of the turn being dispatched: state["messages"][-1].tool_calls
PendingCalls(i) == messages[i][Len(messages[i])].tool_calls

\* how the try block of run_tool ends: a value returned, an exception raised
Return(v) == [type |-> "return", value |-> v]

Raise(e) == [type |-> "raise", error |-> e]

\* lines 50-51: the lookup in tools_by_name raises KeyError for a name the
\* registry lacks (the text of a KeyError is the key); tool.ainvoke returns
\* its observation, or raises (arguments the schema rejects)
ToolOutcomes(tool_call) ==
    IF tool_call.name \in tools_by_name
    THEN {Return(ObservationOf(tool_call.name)), Raise("ValidationError")}
    ELSE {Raise(tool_call.name)}

\* mutant of run_tool: the lookup in tools_by_name is made before the try
run_tool_lookup_outside_try(tool_call, o) ==
    IF tool_call.name \notin tools_by_name THEN o
    ELSE IF o.type = "return"
    THEN ToolMessage(o.value, tool_call.id)
    ELSE ToolMessage(ToolErrorText(o.error), tool_call.id)

\* mutant of run_tool: no except clause around tool.ainvoke
run_tool_without_except(tool_call, o) ==
    IF o.type = "return" THEN ToolMessage(o.value, tool_call.id)
    ELSE IF tool_call.name \in tools_by_name THEN o
    ELSE ToolMessage(ToolErrorText(o.error), tool_call.id)

\* run_tool (lines 48-60) when its try block ends with `o`: the observation,
\* or the exception's text, in a ToolMessage with the call's identifier
run_tool(tool_call, o) ==
    IF o.type = "return"
    THEN ToolMessage(o.value, tool_call.id)
    ELSE ToolMessage(ToolErrorText(o.error), tool_call.id)

\* lines 48-66: one run_tool coroutine of the gather completes; an exception
\* that left it would leave gather, tool_node and graph.ainvoke
RunTool(i, k) ==
    /\ Resumes(i, "tools")
    /\ pending[i][k] = NotYet
    /\ \E o \in ToolOutcomes(PendingCalls(i)[k]) :
        LET m == run_tool(PendingCalls(i)[k], o)
        IN  IF m.type = "raise"
            THEN /\ SessionFails(i, "tool")
                 /\ UNCHANGED counters
            ELSE /\ pending' = [pending EXCEPT ![i][k] = m]
                 /\ failed_calls' = [failed_calls EXCEPT
                        ![i] = IF o.type = "raise"
                               THEN @ \cup {PendingCalls(i)[k].id} ELSE @]
                 /\ UNCHANGED <<semaphore, pc, file_content, messages,
                                dependencies, human_prompt, llm_input, counters, ret,
                                raised, finished>>
    /\ UNCHANGED <<inputs, batch, deps>>

\* mutant of GatheredToolResults: the error observations are left out
GatheredSuccesses(slots) ==
    SelectSeq(slots, LAMBDA m : m.content = SearchObservation)

\* asyncio.gather (line 64): the results in the order of the awaitables
GatheredToolResults(slots) == slots

\* mutant of ToolNodeReturns: tool_node returns with the results it has as
\* soon as one call has completed
ToolNodeReturnsOnFirst(i) ==
    /\ Resumes(i, "tools")
    /\ \E k \in DOMAIN pending[i] : pending[i][k] # NotYet
    /\ messages' = [messages EXCEPT
            ![i] = @ \o SelectSeq(pending[i], LAMBDA m : m # NotYet)]
    /\ pending' = [pending EXCEPT ![i] = <<>>]
    /\ pc' = [pc EXCEPT ![i] = "llm"]
    /\ UNCHANGED <<inputs, semaphore, file_content, dependencies,
                   failed_calls, human_prompt, llm_input, counters, ret, raised,
                   finished, batch, deps>>

\* lines 64-68: gather has every result; the reducer appends them and the
\* graph goes back to the llm node
ToolNodeReturns(i) ==
    /\ Resumes(i, "tools")
    /\ \A k \in DOMAIN pending[i] : pending[i][k] # NotYet
    /\ messages' = [messages EXCEPT ![i] = @ \o GatheredToolResults(pending[i])]
    /\ pending' = [pending EXCEPT ![i] = <<>>]
    /\ pc' = [pc EXCEPT ![i] = "llm"]
    /\ UNCHANGED <<inputs, semaphore, file_content, dependencies,
                   failed_calls, human_prompt, llm_input, counters, ret, raised,
                   finished,
                   batch, deps>>

(***************************************************************************)
(* The end of the batch.                                                   *)
(***************************************************************************)
\* mutant of GatherResults: the results in the order of completion
GatherResultsAsCompleted == [k \in 1..Len(finished) |-> ret[finished[k]]]

\* what gather hands back: the children's results in the order of the
\* awaitables
GatherResults == [i \in Sessions |-> ret[i]]

\* lines 125-126: every child has returned
GatherReturns ==
    /\ batch = "running"
    /\ \A i \in Sessions : pc[i] = "done"
    /\ batch' = "returned"
    /\ deps' = GatherResults
    /\ UNCHANGED <<inputs, semaphore, pc, locals, counters, ret, raised,
                   finished>>

\* line 125: a child raised; gather passes the exception to ainvoke, which
\* has no handler; the other children are not cancelled
GatherRaises ==
    /\ batch = "running"
    /\ \A j \in Sessions : pc[j] # "new"
    /\ \E i \in Sessions : pc[i] = "raised"
    /\ batch' = "raised"
    /\ UNCHANGED <<inputs, semaphore, pc, locals, counters, ret, raised,
                   finished, deps>>

Next ==
    \/ \E i \in Sessions : BuildFails(i)
    \/ \E i \in Sessions : StartAdmitted(i)
    \/ \E i \in Sessions : StartQueued(i)
    \/ \E i \in Sessions : Admit(i)
    \/ \E i \in Sessions : ReadFile(i)
    \/ \E i \in Sessions : ReadFails(i)
    \/ \E i \in Sessions : PromptFails(i)
    \/ \E i \in Sessions : ModelFails(i)
    \/ \E i \in Sessions : ModelRequestsTools(i)
    \/ \E i \in Sessions : ModelAnswers(i)
    \/ \E i \in Sessions : \E k \in DOMAIN pending[i] : RunTool(i, k)
    \/ \E i \in Sessions : ToolNodeReturns(i)
    \/ GatherReturns
    \/ GatherRaises

Spec == Init /\ [][Next]_vars

(***************************************************************************)
(* The batch with a tool that may never return: tool.ainvoke (line 51) is  *)
(* awaited with no timeout, and so are gather (64), graph.ainvoke (104)    *)
(* and the gather of the sessions (125).                                   *)
(***************************************************************************)
\* line 51: a tool invocation of the turn never returns (the file system the
\* search walks does not answer): run_tool, the gather of line 64 and with
\* them the session wait for it for ever
ToolStalls(i) ==
    /\ Resumes(i, "tools")
    /\ \E k \in DOMAIN pending[i] : pending[i][k] = NotYet
    /\ pc' = [pc EXCEPT ![i] = "stalled"]
    /\ UNCHANGED <<inputs, semaphore, locals, counters, ret, raised, finished,
                   batch, deps>>

(***************************************************************************)
(* The batch of one file whose model may ask for any tool of the tools     *)
(* package: with one file and a free slot nothing queues.                  *)
(***************************************************************************)
\* the tool-call lists of a turn over the names of the whole package
AnyToolCallLists(i) ==
    UNION { { [k \in 1..c |-> ToolCall(<<Len(messages[i]), k>>, names[k])] :
                names \in [1..c -> PackageToolNames] } :
            c \in 1..(MaxToolCalls - calls_issued) }

\* the model client answers with calls of any tools of the package
ModelRequestsAnyTool(i) ==
    \E calls \in AnyToolCallLists(i) : ModelResponds(i, AIMessage(EmptyText, calls))

FrameInit ==
    /\ Init
    /\ Len(files) = 1
    /\ max_concurrency >= 1

FrameNext ==
    \/ \E i \in Sessions : BuildFails(i)
    \/ \E i \in Sessions : StartAdmitted(i)
    \/ \E i \in Sessions : ReadFile(i)
    \/ \E i \in Sessions : ReadFails(i)
    \/ \E i \in Sessions : PromptFails(i)
    \/ \E i \in Sessions : ModelFails(i)
    \/ \E i \in Sessions : ModelRequestsAnyTool(i)
    \/ \E i \in Sessions : ModelAnswers(i)
    \/ \E i \in Sessions : \E k \in DOMAIN pending[i] : RunTool(i, k)
    \/ \E i \in Sessions : ToolNodeReturns(i)
    \/ GatherReturns
    \/ GatherRaises

FrameSpec == FrameInit /\ [][FrameNext]_vars

StallNext ==
    \/ Next
    \/ \E i \in Sessions : ToolStalls(i)

StallSpec == Init /\ [][StallNext]_vars

(***************************************************************************)
(* The reconciliation of _ainvoke_single (lines 105-117) taken alone, over *)
(* the terminal payloads graph.ainvoke may hand back.                      *)
(***************************************************************************)
\* no batch is running
BatchIdle ==
    /\ files = <<>>
    /\ max_concurrency = 0
    /\ sem_value = 0
    /\ sem_waiters = <<>>
    /\ sem_woken = {}
    /\ pc = <<>>
    /\ file_content = <<>>
    /\ messages = <<>>
    /\ dependencies = <<>>
    /\ pending = <<>>
    /\ failed_calls = <<>>
    /\ human_prompt = <<>>
    /\ llm_input = <<>>
    /\ ret = <<>>
    /\ raised = <<>>
    /\ llm_calls = <<>>
    /\ dispatches = <<>>
    /\ reads = <<>>
    /\ response = <<>>
    /\ finished = <<>>
    /\ calls_issued = 0
    /\ batch = "idle"
    /\ deps = NotYet

\* a JSON number
JNum(n) == [t |-> "int", v |-> n]

\* the values a JSON object may carry for field k: a value of the declared
\* type, an empty value of the declared type, a value of another type
FieldValues(k) ==
    IF FieldType(k) = "list"
    THEN {JList(<<"./a">>), JList(<<>>), JStr("x")}
    ELSE {JStr("x"), JStr(""), JNum(1)}

\* the JSON objects over the fields of FileDependency: every subset of the
\* fields, every choice of values
JsonObjects ==
    UNION { [present -> UNION {FieldValues(k) : k \in present}] :
                present \in SUBSET FileDependencyFields }

\* the objects of JsonObjects whose fields carry values meant for them
FieldObjects ==
    {obj \in JsonObjects : \A k \in DOMAIN obj : obj[k] \in FieldValues(k)}

\* the FileDependency instances: what the constructor accepts
FileDependencyInstances ==
    {FileDependency(obj) : obj \in {o \in FieldObjects : ~ValidationFails(o)}}

\* the terminal payloads: the text of a JSON object, the text of JSON that is
\* no object, text that is not JSON, a FileDependency, content blocks, nothing
\* names the schema does not declare
ExtraFieldNames == {"imports"}

\* obj with the fields `names` added
WithExtra(obj, names) ==
    [k \in DOMAIN obj \cup names |->
        IF k \in DOMAIN obj THEN obj[k] ELSE JList(<<"x">>)]

\* objects that carry fields the schema does not declare
ExtraObjects ==
    {WithExtra(obj, names) :
        obj \in FieldObjects \cup {GoodObject(FileName(1))},
        names \in (SUBSET ExtraFieldNames) \ {{}}}

TerminalPayloads ==
    {Str(<<"{", obj, "}">>, Json(obj)) : obj \in FieldObjects \cup ExtraObjects}
        \cup {Str(<<"[]">>, Json(<<>>)), Str(<<"not json">>, NotJson)}
        \cup FileDependencyInstances
        \cup {ContentBlocks, NoneValue}

ReconcileInit ==
    /\ BatchIdle
    /\ ToolIdle
    /\ SearchIdle
    /\ GraphIdle
    /\ PrepIdle
    /\ CleanIdle
    /\ payload \in TerminalPayloads
    /\ outcome = NotYet
    /\ reconciler = "called"

\* lines 106-110 and 115-117: the payload is a str; json.loads and
\* model_validate give the record, or raise and the except clause gives None
ReconcileText ==
    /\ reconciler = "called"
    /\ payload.form = "str"
    /\ outcome' = Reconcile(payload)
    /\ reconciler' = "returned"
    /\ UNCHANGED <<batch_vars, tool_vars, search_vars, graph_vars, prep_vars, clean_vars, payload>>

\* lines 111-112: the payload is a FileDependency
ReconcileInstance ==
    /\ reconciler = "called"
    /\ payload.form = "FileDependency"
    /\ outcome' = Reconcile(payload)
    /\ reconciler' = "returned"
    /\ UNCHANGED <<batch_vars, tool_vars, search_vars, graph_vars, prep_vars, clean_vars, payload>>

\* lines 113-114: the payload is anything else
ReconcileOther ==
    /\ reconciler = "called"
    /\ payload.form \notin {"str", "FileDependency"}
    /\ outcome' = Reconcile(payload)
    /\ reconciler' = "returned"
    /\ UNCHANGED <<batch_vars, tool_vars, search_vars, graph_vars, prep_vars, clean_vars, payload>>

ReconcileNext ==
    \/ ReconcileText
    \/ ReconcileInstance
    \/ ReconcileOther

ReconcileSpec == ReconcileInit /\ [][ReconcileNext]_vars

(***************************************************************************)
(* The tools taken alone: tools/directory_validator.py, read_file_tool.py, *)
(* file_name_search_tool.py, over a small file system:                     *)
(*   /w          the working directory                                     *)
(*   /w/f        a file            /w/a      a directory                   *)
(*   /w/a/f      a file            /w/out    a symbolic link to /etc       *)
(*   /etc/f      a file outside the working directory                      *)
(* A path is the sequence of its components below the root.                *)
(***************************************************************************)
working_directory == <<"w">>

Directories == {<<>>, <<"w">>, <<"w", "a">>, <<"etc">>}

Files == {<<"w", "f">>, <<"w", "a", "f">>, <<"etc", "f">>}

SymlinkAt == <<"w", "out">>

SymlinkTarget == <<"etc">>

\* the names a relative_path argument is made of
PathNames == {"..", "w", "a", "f", "out"}

\* an optional value: None, or the value
None == <<>>

Some(v) == <<v>>

\* one component c walked from directory cur, as Path.resolve(strict=False)
\* does: ".." goes up, a symbolic link is followed, a name that does not
\* exist is kept
ResolveStep(cur, c) ==
    IF c = ".."
    THEN IF cur = <<>> THEN <<>> ELSE SubSeq(cur, 1, Len(cur) - 1)
    ELSE IF Append(cur, c) = SymlinkAt THEN SymlinkTarget
    ELSE Append(cur, c)

RECURSIVE Resolve(_, _)
\* Path.resolve(strict=False) of the components `parts` below `cur`
Resolve(cur, parts) ==
    IF parts = <<>> THEN cur
    ELSE Resolve(ResolveStep(cur, Head(parts)), Tail(parts))

\* Path.is_relative_to: `base` is a prefix of `path`
IsRelativeTo(path, base) ==
    /\ Len(base) <= Len(path)
    /\ SubSeq(path, 1, Len(base)) = base

\* mutant of is_path_safe: no test of is_absolute (joining a directory with
\* an absolute path gives the absolute path)
is_path_safe_allows_absolute(wd, user_path) ==
    LET full_path == Resolve(IF user_path.absolute THEN <<>> ELSE wd,
                             user_path.parts)
    IN  IF IsRelativeTo(full_path, wd)
        THEN [is_safe |-> TRUE, target_path |-> Some(full_path)]
        ELSE [is_safe |-> FALSE, target_path |-> None]

\* mutant of is_path_safe: the joined path is compared without resolve()
is_path_safe_unresolved(wd, user_path) ==
    IF user_path.absolute THEN [is_safe |-> FALSE, target_path |-> None]
    ELSE LET full_path == wd \o user_path.parts
         IN  IF IsRelativeTo(full_path, wd)
             THEN [is_safe |-> TRUE, target_path |-> Some(full_path)]
             ELSE [is_safe |-> FALSE, target_path |-> None]

\* is_path_safe (directory_validator.py lines 4-34): (is_safe, resolved path)
is_path_safe(wd, user_path) ==
    IF user_path.absolute THEN [is_safe |-> FALSE, target_path |-> None]
    ELSE LET full_path == Resolve(wd, user_path.parts)
         IN  IF IsRelativeTo(full_path, wd)
             THEN [is_safe |-> TRUE, target_path |-> Some(full_path)]
             ELSE [is_safe |-> FALSE, target_path |-> None]

\* the file or directory the operating system reaches for path p
RealPath(p) == Resolve(<<>>, p)

\* Path.exists, Path.is_file, Path.is_dir
Exists(p) == RealPath(p) \in Directories \cup Files

IsFile(p) == RealPath(p) \in Files

IsDir(p) == RealPath(p) \in Directories

\* the strings of ReadFileTool (read_file_tool.py lines 73, 97-112, 81, 152)
ReadUnsafeText(p) ==
    Str(<<"Unsafe or invalid path provided: ", p,
          ". Always use paths relative to the working directory.">>, NotJson)

ReadOutsideText(p) ==
    Str(<<"ERROR: The path ", p, " is outside the authorized workspace">>, NotJson)

ReadNotFoundText(p) == Str(<<"ERROR: File not found at path ", p>>, NotJson)

ReadDirectoryText(p) ==
    Str(<<"ERROR: The path ", p, " points to a directory">>, NotJson)

ReadOffsetText(off) ==
    Str(<<"ERROR: Offset must be 1 or greater, but received ", off>>, NotJson)

ReadUnexpectedText(p) ==
    Str(<<"ERROR: An unexpected error occurred while reading ", p>>, NotJson)

ReadBeyondText(off, total) ==
    Str(<<"ERROR: Offset line ", off, " is greater than the total number of lines ",
          total>>, NotJson)

\* header, body and footer of a successful read (lines 163-170)
ReadContentText(name, start_line, end_line, total, p, body) ==
    Str(<<"--- START OF FILE CONTENT FOR ", name, start_line, end_line, total,
          p, body, "--- END OF FILE CONTENT ---">>, NotJson)

\* ReadFileTool._validate_path (lines 89-114): an error string, or None
ReadValidatePath(is_safe, target, p, off) ==
    IF ~is_safe \/ target = None THEN Some(ReadOutsideText(p))
    ELSE IF ~Exists(target[1]) THEN Some(ReadNotFoundText(p))
    ELSE IF ~IsFile(target[1]) THEN Some(ReadDirectoryText(p))
    ELSE IF off < 1 THEN Some(ReadOffsetText(off))
    ELSE None

\* an index of a Python slice over a list of n items: a negative index
\* counts from the end, and the result is clipped to 0..n
SliceIndex(i, n) ==
    IF i < 0 THEN (IF i + n < 0 THEN 0 ELSE i + n)
    ELSE IF i > n THEN n ELSE i

\* the Python slice lines[start:end]
PySlice(lines, start, end) ==
    LET lo == SliceIndex(start, Len(lines))
        hi == SliceIndex(end, Len(lines))
    IN  IF lo >= hi THEN <<>> ELSE SubSeq(lines, lo + 1, hi)

\* min(a, b)
Min(a, b) == IF a <= b THEN a ELSE b

\* mutant of process_lines: an offset past the last line gives the content
\* header with no line
process_lines_without_range_check(lines, target, p, off, lim) ==
    LET total == Len(lines)
        start_index == off - 1
        end_index == IF lim = None THEN total
                     ELSE Min(start_index + lim[1], total)
        lines_to_output == PySlice(lines, start_index, end_index)
    IN  ReadContentText(target[Len(target)], start_index + 1,
                        end_index, total, p, lines_to_output)

\* ReadFileTool._process_lines (lines 140-170)
process_lines(lines, target, p, off, lim) ==
    LET total == Len(lines)
        start_index == off - 1
    IN  IF start_index >= total THEN ReadBeyondText(off, total)
        ELSE LET end_index == IF lim = None THEN total
                              ELSE Min(start_index + lim[1], total)
                 lines_to_output == PySlice(lines, start_index, end_index)
             IN  ReadContentText(target[Len(target)], start_index + 1,
                                 end_index, total, p, lines_to_output)

\* the lines of a file of n lines: line k is k
FileLines(n) == [k \in 1..n |-> k]

\* ReadFileTool._execute_async, lines 71-76: the path is checked, then
\* validated; an error string is returned, or the file is about to be read
ReadToolChecks ==
    /\ tool = "ReadFileTool"
    /\ tool_pc = "called"
    /\ LET safe == is_path_safe(working_directory, relative_path)
           error == ReadValidatePath(safe.is_safe, safe.target_path,
                                     relative_path, offset)
       IN  IF safe.target_path = None
           THEN /\ observation' = ReadUnsafeText(relative_path)
                /\ tool_pc' = "returned"
                /\ UNCHANGED target_path
           ELSE IF error # None
           THEN /\ observation' = error[1]
                /\ tool_pc' = "returned"
                /\ UNCHANGED target_path
           ELSE /\ target_path' = safe.target_path
                /\ tool_pc' = "checked"
                /\ UNCHANGED observation
    /\ UNCHANGED <<batch_vars, reconciler_vars, search_vars, graph_vars, prep_vars, clean_vars, tool, relative_path, offset,
                   limit, total_lines, io>>

\* lines 78-83: the file is read and its lines are cut and framed
ReadToolReads ==
    /\ tool = "ReadFileTool"
    /\ tool_pc = "checked"
    /\ io' = io \cup {RealPath(target_path[1])}
    /\ observation' = process_lines(FileLines(total_lines), target_path[1],
                                    relative_path, offset, limit)
    /\ tool_pc' = "returned"
    /\ UNCHANGED <<batch_vars, reconciler_vars, search_vars, graph_vars, prep_vars, clean_vars, tool, relative_path, offset,
                   limit, total_lines, target_path>>

\* lines 78-81: reading raises (the file cannot be opened or decoded)
ReadToolReadFails ==
    /\ tool = "ReadFileTool"
    /\ tool_pc = "checked"
    /\ io' = io \cup {RealPath(target_path[1])}
    /\ observation' = ReadUnexpectedText(relative_path)
    /\ tool_pc' = "returned"
    /\ UNCHANGED <<batch_vars, reconciler_vars, search_vars, graph_vars, prep_vars, clean_vars, tool, relative_path, offset,
                   limit, total_lines, target_path>>

\* the strings of FileNameSearchTool (file_name_search_tool.py lines 82,
\* 107-113, 92, 155-171)
SearchOutsideText(p) ==
    Str(<<"ERROR: The search path ", p,
          " is outside the authorized workspace.">>, NotJson)

SearchNotFoundText(p) ==
    Str(<<"ERROR: The search path ", p, " does not exist.">>, NotJson)

SearchNotDirectoryText(p) ==
    Str(<<"ERROR: The search path ", p, " is not a directory.">>, NotJson)

SearchUnexpectedText == Str(<<"ERROR: An unexpected error occurred: ">>, NotJson)

SearchNoFilesText(p) ==
    Str(<<"No files found matching pattern ", p>>, NotJson)

SearchResultsText(matched_files) ==
    Str(<<"File search results for pattern ", matched_files>>, NotJson)

\* FileNameSearchTool._validate_path (lines 100-115)
SearchValidatePath(is_safe, target, p) ==
    IF ~is_safe \/ target = None THEN Some(SearchOutsideText(p))
    ELSE IF ~Exists(target[1]) THEN Some(SearchNotFoundText(p))
    ELSE IF ~IsDir(target[1]) THEN Some(SearchNotDirectoryText(p))
    ELSE None

\* the directories target_path.rglob("*") lists: the target and every
\* directory below it; a link to a directory is listed but not entered
WalkedDirectories(target) ==
    {d \in Directories : IsRelativeTo(d, target)}

\* FileNameSearchTool._search_files (lines 121-141) with the pattern "*":
\* the files below the target, relative to the working directory
search_files(target) ==
    {SubSeq(f, Len(working_directory) + 1, Len(f)) :
        f \in {g \in Files : IsRelativeTo(g, target)}}

\* FileNameSearchTool._format_output (lines 147-171)
format_output(matched_files, p) ==
    IF matched_files = {} THEN SearchNoFilesText(p)
    ELSE SearchResultsText(matched_files)

\* FileNameSearchTool._execute_async, lines 80-85
SearchToolChecks ==
    /\ tool = "FileNameSearchTool"
    /\ tool_pc = "called"
    /\ LET safe == is_path_safe(working_directory, relative_path)
           error == SearchValidatePath(safe.is_safe, safe.target_path,
                                       relative_path)
       IN  IF safe.target_path = None
           THEN /\ observation' = SearchOutsideText(relative_path)
                /\ tool_pc' = "returned"
                /\ UNCHANGED target_path
           ELSE IF error # None
           THEN /\ observation' = error[1]
                /\ tool_pc' = "returned"
                /\ UNCHANGED target_path
           ELSE /\ target_path' = safe.target_path
                /\ tool_pc' = "checked"
                /\ UNCHANGED observation
    /\ UNCHANGED <<batch_vars, reconciler_vars, search_vars, graph_vars, prep_vars, clean_vars, tool, relative_path, offset,
                   limit, total_lines, io>>

\* lines 87-94: the directory is walked and the matches are listed
SearchToolWalks ==
    /\ tool = "FileNameSearchTool"
    /\ tool_pc = "checked"
    /\ io' = io \cup WalkedDirectories(RealPath(target_path[1]))
    /\ observation' = format_output(search_files(RealPath(target_path[1])),
                                    relative_path)
    /\ tool_pc' = "returned"
    /\ UNCHANGED <<batch_vars, reconciler_vars, search_vars, graph_vars, prep_vars, clean_vars, tool, relative_path, offset,
                   limit, total_lines, target_path>>

\* lines 87-92: the walk raises (a directory cannot be listed)
SearchToolWalkFails ==
    /\ tool = "FileNameSearchTool"
    /\ tool_pc = "checked"
    /\ io' = io \cup {RealPath(target_path[1])}
    /\ observation' = SearchUnexpectedText
    /\ tool_pc' = "returned"
    /\ UNCHANGED <<batch_vars, reconciler_vars, search_vars, graph_vars, prep_vars, clean_vars, tool, relative_path, offset,
                   limit, total_lines, target_path>>

\* the arguments a model can give as relative_path
UserPaths ==
    {PathOf(absolute, parts) :
        absolute \in BOOLEAN,
        parts \in UNION {[1..n -> PathNames] : n \in 0..MaxPathLen}}

\* a call of one of the two tools with an arbitrary path
PathInit ==
    /\ BatchIdle
    /\ ReconcilerIdle
    /\ SearchIdle
    /\ GraphIdle
    /\ PrepIdle
    /\ CleanIdle
    /\ tool \in {"ReadFileTool", "FileNameSearchTool"}
    /\ relative_path \in UserPaths
    /\ offset = 1
    /\ limit = None
    /\ total_lines = MaxLines
    /\ tool_pc = "called"
    /\ target_path = None
    /\ observation = NotYet
    /\ io = {}

PathNext ==
    \/ ReadToolChecks
    \/ ReadToolReads
    \/ ReadToolReadFails
    \/ SearchToolChecks
    \/ SearchToolWalks
    \/ SearchToolWalkFails

PathSpec == PathInit /\ [][PathNext]_vars

\* a call of the read tool on a file of the workspace
ReadInit ==
    /\ BatchIdle
    /\ ReconcilerIdle
    /\ SearchIdle
    /\ GraphIdle
    /\ PrepIdle
    /\ CleanIdle
    /\ tool = "ReadFileTool"
    /\ relative_path = PathOf(FALSE, <<"f">>)
    /\ offset \in 0..(MaxLines + 1)
    /\ limit \in {None} \cup {Some(n) : n \in (0 - MaxLines)..(MaxLines + 1)}
    /\ total_lines \in 0..MaxLines
    /\ tool_pc = "called"
    /\ target_path = None
    /\ observation = NotYet
    /\ io = {}

ReadNext ==
    \/ ReadToolChecks
    \/ ReadToolReads
    \/ ReadToolReadFails

ReadSpec == ReadInit /\ [][ReadNext]_vars

(***************************************************************************)
(* FileNameSearchTool._search_files and _format_output taken alone, over   *)
(* what rglob yields below the searched directory.                         *)
(***************************************************************************)
\* an entry rglob yields: a file the pattern matches, a file it does not
\* match, something that is not a file
EntryKinds == {"match", "other", "dir"}

\* the loop of _search_files (lines 125-139) from entry k on, `matched`
\* being the matches so far: the test of max_results follows every file
RECURSIVE SearchFilesLoop(_, _, _, _)
SearchFilesLoop(rglob, k, matched, cap) ==
    IF k > Len(rglob) THEN [matched_files |-> matched, truncated |-> FALSE]
    ELSE IF rglob[k] = "dir" THEN SearchFilesLoop(rglob, k + 1, matched, cap)
    ELSE LET m == IF rglob[k] = "match" THEN Append(matched, k) ELSE matched
         IN  IF Len(m) >= cap
             THEN [matched_files |-> m, truncated |-> TRUE]
             ELSE SearchFilesLoop(rglob, k + 1, m, cap)

\* the strings of _format_output (lines 154-171)
SearchTruncatedText(matched_files) ==
    Str(<<"File search results for pattern ", "(TRUNCATED)", matched_files,
          "--- LIMIT REACHED ---">>, NotJson)

SearchCompleteText(matched_files) ==
    Str(<<"File search results for pattern ", matched_files>>, NotJson)

SearchEmptyText == Str(<<"No files found matching pattern ">>, NotJson)

\* FileNameSearchTool._format_output with its truncated flag (lines 147-171)
FormatSearchOutput(matched_files, truncated) ==
    IF matched_files = <<>> THEN SearchEmptyText
    ELSE IF truncated THEN SearchTruncatedText(matched_files)
    ELSE SearchCompleteText(matched_files)

\* lines 87-94: _search_files, then _format_output
SearchResult(rglob, cap) ==
    LET found == SearchFilesLoop(rglob, 1, <<>>, cap)
    IN  [matched_files |-> found.matched_files,
         truncated |-> found.truncated,
         output |-> FormatSearchOutput(found.matched_files, found.truncated)]

SearchInit ==
    /\ BatchIdle
    /\ ReconcilerIdle
    /\ ToolIdle
    /\ GraphIdle
    /\ PrepIdle
    /\ CleanIdle
    /\ entries \in UNION {[1..n -> EntryKinds] : n \in 0..MaxEntries}
    /\ max_results \in 1..MaxResults
    /\ search_result = NotYet

\* the search finds nothing
SearchFindsNothing ==
    /\ search_result = NotYet
    /\ SearchResult(entries, max_results).matched_files = <<>>
    /\ search_result' = SearchResult(entries, max_results)
    /\ UNCHANGED <<batch_vars, reconciler_vars, tool_vars, graph_vars, prep_vars, clean_vars, entries,
                   max_results>>

\* the loop runs to the end of what rglob yields
SearchRunsToEnd ==
    /\ search_result = NotYet
    /\ SearchResult(entries, max_results).matched_files # <<>>
    /\ ~SearchResult(entries, max_results).truncated
    /\ search_result' = SearchResult(entries, max_results)
    /\ UNCHANGED <<batch_vars, reconciler_vars, tool_vars, graph_vars, prep_vars, clean_vars, entries,
                   max_results>>

\* the loop breaks at max_results
SearchBreaks ==
    /\ search_result = NotYet
    /\ SearchResult(entries, max_results).matched_files # <<>>
    /\ SearchResult(entries, max_results).truncated
    /\ search_result' = SearchResult(entries, max_results)
    /\ UNCHANGED <<batch_vars, reconciler_vars, tool_vars, graph_vars, prep_vars, clean_vars, entries,
                   max_results>>

SearchNext ==
    \/ SearchFindsNothing
    \/ SearchRunsToEnd
    \/ SearchBreaks

SearchSpec == SearchInit /\ [][SearchNext]_vars

(***************************************************************************)
(* Properties.                                                             *)
(***************************************************************************)
\* the sessions inside graph.ainvoke
Active == {i \in Sessions : pc[i] \in {"llm", "tools"}}

\* the queued sessions a release has handed its slot to
WokenWaiting == {i \in Sessions : pc[i] = "waiting" /\ i \in sem_woken}

\* the queued sessions still waiting for a slot
Queued == {i \in Sessions : pc[i] = "waiting" /\ i \notin sem_woken}

\* the entry a final payload of file f stands for: the record of a payload that
\* is the JSON text of a complete object, None for anything else
ExpectedEntry(f, content) ==
    IF content = Str(<<"{good}">>, Json(GoodObject(f)))
    THEN FileDependency(GoodObject(f))
    ELSE NoneValue

\* the steps of a running session whose exception ends it
SessionSteps == {"read", "prompt", "model", "tool"}

\* the entry session i alone determines: None when one of its steps raised,
\* else what its last assistant turn stands for
OwnOutcome(i) ==
    IF raised[i] \in SessionSteps THEN NoneValue
    ELSE ExpectedEntry(files[i], response[i].content)

\* C1: whenever ainvoke returns, the list has len(files) entries and its i-th
\* entry is what the session of files[i] returned, whatever the order in
\* which the sessions finished.
C1_ResultsInInputOrder ==
    batch = "returned" =>
        /\ Len(deps) = Len(files)
        /\ \A i \in 1..Len(files) : pc[i] = "done" /\ deps[i] = ret[i]

\* C1 witness: two files, the second session needed fewer turns and finished
\* first, and the two entries differ.
C1_Witness ==
    /\ batch = "returned"
    /\ Len(files) = 2
    /\ finished = <<2, 1>>
    /\ dispatches[1] = 1 /\ dispatches[2] = 0
    /\ deps[1] # deps[2]

\* C2: at most max_concurrency sessions are inside graph.ainvoke, every one
\* of them accounts for one slot of the semaphore, a session outside it has
\* read no file, invoked no model and dispatched no tool, and a session stays
\* queued only while no slot is free.
C2_BoundedAdmission ==
    /\ Cardinality(Active) <= max_concurrency
    /\ sem_value >= 0
    /\ Cardinality(Active) + Cardinality(WokenWaiting) + sem_value = max_concurrency
    /\ \A i \in Sessions :
        pc[i] \in {"new", "waiting", "raised"} =>
            reads[i] = 0 /\ llm_calls[i] = 0 /\ dispatches[i] = 0
    /\ \A i \in Queued :
        /\ sem_value = 0
        /\ \E k \in DOMAIN sem_waiters : sem_waiters[k] = i

\* C2 witness: every slot is taken, a session is dispatching tools and another
\* one is queued behind it.
C2_Witness ==
    /\ max_concurrency >= 1
    /\ Cardinality(Active) = max_concurrency
    /\ \E i, j \in Sessions :
        /\ i \in Queued
        /\ pc[j] = "tools" /\ reads[j] = 1 /\ llm_calls[j] = 1

\* C3: a session that ended in a hard failure or unresolved holds no slot (the
\* slots are all accounted for by running sessions, so whoever is queued waits
\* for a running one), it does not make ainvoke raise, and every entry of the
\* returned list is the outcome its own session determines.
C3_FailureIsolation ==
    /\ Cardinality(Active) + Cardinality(WokenWaiting) + sem_value = max_concurrency
    /\ Queued # {} => Cardinality(Active) + Cardinality(WokenWaiting) = max_concurrency
    /\ batch = "raised" => \E k \in Sessions : raised[k] = "build"
    /\ batch = "returned" => \A i \in Sessions : deps[i] = OwnOutcome(i)

\* C3 witness: limit 1, the first session died of a model failure, the second
\* was admitted after it and its entry is a record.
C3_Witness ==
    /\ batch = "returned"
    /\ max_concurrency = 1
    /\ Len(files) = 2
    /\ raised[1] = "model" /\ deps[1] = NoneValue
    /\ deps[2] = FileDependency(GoodObject(files[2]))

\* C4 (as claimed): ainvoke never raises, whatever step of handling a file
\* fails.
C4_NeverRaises == batch # "raised"

\* the steps in which session i is unchanged as far as its own conversation
\* and result go
SessionUntouched(i) ==
    /\ pc'[i] = pc[i]
    /\ ret'[i] = ret[i]
    /\ messages'[i] = messages[i]
    /\ pending'[i] = pending[i]
    /\ llm_calls'[i] = llm_calls[i]
    /\ dispatches'[i] = dispatches[i]

\* the state of a session a model failure ended
EndedByModelFailure(i) ==
    /\ pc[i] = "done"
    /\ ret[i] = NoneValue
    /\ messages[i] = <<>>
    /\ pending[i] = <<>>
    /\ batch = "returned" => deps[i] = NoneValue

\* the step in which the model client fails session i
ModelFailureStep(i) == raised[i] # "model" /\ raised'[i] = "model"

\* C5: a failed model invocation ends its session at once with None (no
\* message is appended for the failure, the returned list holds None for the
\* file), nothing is invoked or dispatched in that session afterwards, and
\* the step of the failure leaves every other session as it was.
C5_ModelFailureEndsSession ==
    /\ [](\A i \in Sessions : raised[i] = "model" => EndedByModelFailure(i))
    /\ [][\A i \in Sessions :
            /\ raised[i] = "model" => SessionUntouched(i) /\ raised'[i] = "model"
            /\ ModelFailureStep(i) =>
                /\ llm_calls'[i] = llm_calls[i] + 1
                /\ dispatches'[i] = dispatches[i]
                /\ \A j \in Sessions \ {i} : SessionUntouched(j)]_vars

\* C5 witness: the model failed on the second turn of the first file, after
\* one dispatch, and the list holds None for it and a record for the other.
C5_Witness ==
    /\ batch = "returned"
    /\ Len(files) = 2
    /\ raised[1] = "model" /\ llm_calls[1] = 2 /\ dispatches[1] = 1
    /\ deps[1] = NoneValue
    /\ deps[2] = FileDependency(GoodObject(files[2]))

\* ANALYZE, DISPATCH and TERMINATED of the conversation driver
Analyze(i) == pc[i] = "llm"

Dispatch(i) == pc[i] = "tools"

Terminated(i) == pc[i] = "done"

\* session i terminated normally: its graph reached END
TerminatedNormally(i) == Terminated(i) /\ raised[i] \notin SessionSteps

\* C6: a model invocation that returns tool calls leads from ANALYZE to
\* DISPATCH and one without tool calls to TERMINATED, DISPATCH leads to
\* ANALYZE only, TERMINATED is left by no step, a session in ANALYZE or
\* DISPATCH has made as many invocations as dispatches, a session that
\* terminated normally one more, and its payload is the content of its last
\* assistant turn, which carries no tool call.
C6_DriverTransitions ==
    /\ [](\A i \in Sessions :
            /\ (Analyze(i) \/ Dispatch(i)) => llm_calls[i] = dispatches[i]
            /\ Dispatch(i) => response[i].tool_calls # <<>>
            /\ TerminatedNormally(i) =>
                /\ llm_calls[i] = dispatches[i] + 1
                /\ response[i].tool_calls = <<>>
                /\ dependencies[i] = response[i].content)
    /\ [][\A i \in Sessions :
            /\ (Analyze(i) /\ response'[i] # response[i]
                /\ response'[i].tool_calls # <<>>) => Dispatch(i)'
            /\ (Analyze(i) /\ response'[i] # response[i]
                /\ response'[i].tool_calls = <<>>) => TerminatedNormally(i)'
            /\ (Analyze(i) /\ Dispatch(i)') =>
                /\ response'[i].tool_calls # <<>>
                /\ llm_calls'[i] = llm_calls[i] + 1
                /\ dispatches'[i] = dispatches[i] + 1
            /\ Dispatch(i) => (Dispatch(i)' \/ Analyze(i)')
            /\ Terminated(i) => SessionUntouched(i)]_vars

\* C6 witness: a session went ANALYZE, DISPATCH, ANALYZE, TERMINATED.
C6_Witness ==
    \E i \in Sessions :
        /\ TerminatedNormally(i)
        /\ dispatches[i] = 1 /\ llm_calls[i] = 2
        /\ response[i].content = Str(<<"{good}">>, Json(GoodObject(files[i])))

\* session i got a first assistant turn without tool calls
FirstTurnIsFinal(i) ==
    /\ response[i] # NoneValue
    /\ response[i].tool_calls = <<>>
    /\ dispatches[i] = 0

\* C7: a session whose first assistant turn carries no tool call has ended
\* after one model invocation and no dispatch, and what it returned, and the
\* entry of the returned list, is what that one payload stands for.
C7_SingleRoundTrip ==
    \A i \in Sessions :
        FirstTurnIsFinal(i) =>
            /\ Terminated(i)
            /\ llm_calls[i] = 1
            /\ ret[i] = ExpectedEntry(files[i], response[i].content)
            /\ batch = "returned" => deps[i] = ret[i]

\* C7 witness: the list holds the record of a payload that was the first and
\* only assistant turn.
C7_Witness ==
    \E i \in Sessions :
        /\ batch = "returned"
        /\ FirstTurnIsFinal(i)
        /\ deps[i] = FileDependency(GoodObject(files[i]))

\* the positions of history h that hold an assistant turn whose dispatch is
\* over (another message follows it, or the session is back in ANALYZE)
DispatchedTurns(i) ==
    {p \in DOMAIN messages[i] :
        /\ messages[i][p].type = "ai"
        /\ ~(p = Len(messages[i]) /\ Dispatch(i))}

\* the messages of h that answer call c
AnswersTo(h, c) ==
    {q \in DOMAIN h : h[q].type = "tool" /\ h[q].tool_call_id = c.id}

\* the n messages that follow the turn at p with its n calls are tool results,
\* every call of the turn has exactly one of them, and the next message, if
\* any, is an assistant turn
AnsweredOneByOne(h, p) ==
    LET calls == h[p].tool_calls
        n == Len(calls)
    IN  /\ p + n <= Len(h)
        /\ \A q \in (p + 1)..(p + n) :
            /\ h[q].type = "tool"
            /\ \E k \in 1..n : h[q].tool_call_id = calls[k].id
        /\ \A k \in 1..n :
            /\ Cardinality(AnswersTo(h, calls[k])) = 1
            /\ AnswersTo(h, calls[k]) \subseteq (p + 1)..(p + n)
        /\ p + n < Len(h) => h[p + n + 1].type = "ai"

\* C8: a history starts with an assistant turn, every assistant turn with n
\* tool calls whose dispatch is over is followed by exactly n tool results,
\* one for each of its calls and none for anything else, and the turn being
\* dispatched is the last message, with one result slot per call.
C8_OneResultPerCall ==
    \A i \in Sessions :
        /\ messages[i] # <<>> => messages[i][1].type = "ai"
        /\ \A p \in DispatchedTurns(i) : AnsweredOneByOne(messages[i], p)
        /\ Dispatch(i) =>
            /\ messages[i][Len(messages[i])].type = "ai"
            /\ Len(pending[i]) = Len(PendingCalls(i))
            /\ \A k \in DOMAIN pending[i] :
                pending[i][k] # NotYet =>
                    /\ pending[i][k].type = "tool"
                    /\ pending[i][k].tool_call_id = PendingCalls(i)[k].id

\* C8 witness: a turn with two calls has been dispatched, one call succeeded
\* and one named an unknown tool, and the history has the turn and two results.
C8_Witness ==
    \E i \in Sessions :
        /\ Analyze(i)
        /\ Len(messages[i]) = 3
        /\ Len(messages[i][1].tool_calls) = 2
        /\ \E q, r \in 2..3 :
            /\ messages[i][q].content = SearchObservation
            /\ messages[i][r].content = ToolErrorText("ReadFileTool")

\* the calls of a turn that name a tool the registry lacks
UnknownCalls(calls) == {k \in DOMAIN calls : calls[k].name \notin tools_by_name}

\* the error observation of call c for the exception text e
ErrorObservation(c, e) == ToolMessage(ToolErrorText(e), c.id)

\* C9: no exception leaves the dispatcher; a call that names an unknown tool
\* is answered by an error observation with the call's identifier, in the
\* result slots and in the history; a dispatch ends in ANALYZE and in nothing
\* else, and once every call is answered it can end.
C9_UnknownToolIsObserved ==
    /\ [](\A i \in Sessions :
            /\ raised[i] # "tool"
            /\ Dispatch(i) =>
                \A k \in UnknownCalls(PendingCalls(i)) :
                    pending[i][k] \in
                        {NotYet, ErrorObservation(PendingCalls(i)[k],
                                                  PendingCalls(i)[k].name)}
            /\ \A p \in DispatchedTurns(i) :
                \A k \in UnknownCalls(messages[i][p].tool_calls) :
                    messages[i][p + k] =
                        ErrorObservation(messages[i][p].tool_calls[k],
                                         messages[i][p].tool_calls[k].name)
            /\ (/\ Dispatch(i) /\ batch # "raised"
                /\ \A j \in Sessions : pc[j] # "new"
                /\ \A k \in DOMAIN pending[i] : pending[i][k] # NotYet)
               => ENABLED ToolNodeReturns(i))
    /\ [][\A i \in Sessions :
            Dispatch(i) => \/ Dispatch(i)'
                           \/ Analyze(i)' /\ llm_calls'[i] = llm_calls[i]]_vars

\* C9 witness: the first turn called an unknown tool, the error observation
\* went to the history and the model was invoked a second time.
C9_Witness ==
    \E i \in Sessions :
        /\ llm_calls[i] = 2
        /\ Len(messages[i]) = 3
        /\ messages[i][1].tool_calls[1].name = "ReadFileTool"
        /\ messages[i][2] = ErrorObservation(messages[i][1].tool_calls[1],
                                             "ReadFileTool")
        /\ messages[i][3].type = "ai"

\* the answered calls of the turn session i is dispatching
AnsweredCalls(i) == {k \in DOMAIN pending[i] : pending[i][k] # NotYet}

\* the answered calls of that turn whose invocation failed
FailedCalls(i) ==
    {k \in AnsweredCalls(i) : PendingCalls(i)[k].id \in failed_calls[i]}

\* the observation of every failed call of the turn being dispatched is the
\* text `prefix` followed by a description, with the call's identifier
FailuresObservedAs(prefix) ==
    \A i \in Sessions : \A k \in FailedCalls(i) :
        /\ pending[i][k].type = "tool"
        /\ pending[i][k].tool_call_id = PendingCalls(i)[k].id
        /\ Len(pending[i][k].content.text) = 2
        /\ pending[i][k].content.text[1] = prefix

\* a failed call of the turn stops neither its siblings nor the session: the
\* sibling that succeeded has its own observation, the one still running can
\* complete, and the dispatch can end once all are answered
SiblingsUnaffected ==
    \A i \in Sessions :
        /\ raised[i] # "tool"
        /\ (Dispatch(i) /\ failed_calls[i] # {}) =>
            /\ \A k \in AnsweredCalls(i) \ FailedCalls(i) :
                pending[i][k] =
                    ToolMessage(SearchObservation, PendingCalls(i)[k].id)
            /\ (batch # "raised" /\ \A j \in Sessions : pc[j] # "new") =>
                /\ \A k \in DOMAIN pending[i] \ AnsweredCalls(i) :
                    ENABLED RunTool(i, k)
                /\ AnsweredCalls(i) = DOMAIN pending[i] =>
                    ENABLED ToolNodeReturns(i)

\* C10 (as claimed): a failed tool invocation becomes an observation of the
\* form "tool error: <description>" with the call's identifier.
C10_LowerCaseForm == FailuresObservedAs("tool error: ")

\* C10 (amended): a failed tool invocation becomes an observation of the form
\* "Tool error: <description>" with the call's identifier; its siblings still
\* complete with their own results, and the dispatch ends in ANALYZE.
C10_ToolFailureIsObserved ==
    /\ [](FailuresObservedAs("Tool error: ") /\ SiblingsUnaffected)
    /\ [][\A i \in Sessions :
            (Dispatch(i) /\ failed_calls[i] # {}) =>
                \/ Dispatch(i)' /\ failed_calls[i] \subseteq failed_calls'[i]
                \/ /\ Analyze(i)'
                   /\ Len(messages'[i]) = Len(messages[i]) + Len(pending[i])]_vars

\* C10 witness: of the two calls of a turn the first failed in the tool, the
\* second succeeded, and the session is back in ANALYZE with both
\* results.
C10_Witness ==
    \E i \in Sessions :
        /\ Analyze(i)
        /\ Len(messages[i]) = 3
        /\ messages[i][2] = ErrorObservation(messages[i][1].tool_calls[1],
                                             "ValidationError")
        /\ messages[i][3] = ToolMessage(SearchObservation,
                                        messages[i][1].tool_calls[2].id)
        /\ failed_calls[i] = {messages[i][1].tool_calls[1].id}

\* session i ended with a final payload that is a string json.loads rejects
InvalidJsonFinal(i) ==
    /\ TerminatedNormally(i)
    /\ response[i].content.form = "str"
    /\ ~response[i].content.json.ok

\* C11: a session whose final payload is a string that is not JSON returns
\* None (json.loads raised and the exception was caught), ainvoke does not
\* raise because of it, the returned list holds None for the file and for every
\* other file what that file's own session determines, and the step that ends
\* the session leaves the other sessions and the batch as they were.
C11_InvalidJsonYieldsNone ==
    /\ [](\A i \in Sessions :
            InvalidJsonFinal(i) =>
                /\ ret[i] = NoneValue
                /\ raised[i] = "reconcile"
                /\ batch = "raised" => \E k \in Sessions : raised[k] = "build"
                /\ batch = "returned" =>
                    /\ deps[i] = NoneValue
                    /\ \A j \in Sessions \ {i} : deps[j] = OwnOutcome(j))
    /\ [][\A i \in Sessions :
            (~Terminated(i) /\ InvalidJsonFinal(i)') =>
                /\ batch' = batch
                /\ \A j \in Sessions \ {i} : SessionUntouched(j)]_vars

\* C11 witness: the first file's payload was not JSON, the second file's was
\* a complete object: the list is <<None, record>>.
C11_Witness ==
    /\ batch = "returned"
    /\ Len(files) = 2
    /\ InvalidJsonFinal(1)
    /\ deps[1] = NoneValue
    /\ deps[2] = FileDependency(GoodObject(files[2]))

\* rec is a FileDependency holding all five fields, each of its declared type
CompleteRecord(rec) ==
    /\ rec.form = "FileDependency"
    /\ DOMAIN rec.fields = FileDependencyFields
    /\ \A k \in FileDependencyFields : rec.fields[k].t = FieldType(k)

\* p is the text of a JSON object that lacks one of the five fields
LacksField(p) ==
    /\ p.form = "str"
    /\ p.json.ok
    /\ \E k \in FileDependencyFields : k \notin DOMAIN p.json.obj

\* C12: what the reconciliation returns is None or a record with all five
\* fields, and it is None for the JSON text of an object that lacks a field.
C12_NoPartialRecord ==
    reconciler = "returned" =>
        /\ outcome # NoneValue => CompleteRecord(outcome)
        /\ LacksField(payload) => outcome = NoneValue

\* C12 witness: an object with four well-typed fields and no `name` was
\* reconciled to None.
C12_Witness ==
    /\ reconciler = "returned"
    /\ payload.form = "str"
    /\ payload.json.ok
    /\ DOMAIN payload.json.obj = FileDependencyFields \ {"name"}
    /\ \A k \in DOMAIN payload.json.obj : payload.json.obj[k].t = FieldType(k)
    /\ outcome = NoneValue

\* the value payload p carries for type_of_file is the empty string, p being
\* a FileDependency or the JSON text of an object
EmptyTypeOfFile(p) ==
    \/ /\ p.form = "FileDependency"
       /\ p.fields["type_of_file"] = JStr("")
    \/ /\ p.form = "str"
       /\ p.json.ok
       /\ "type_of_file" \in DOMAIN p.json.obj
       /\ p.json.obj["type_of_file"] = JStr("")

\* C13 (as claimed): a payload whose type_of_file is the empty string is
\* reconciled to None, structured or as JSON text.
C13_EmptyTypeOfFileRejected ==
    (reconciler = "returned" /\ EmptyTypeOfFile(payload)) => outcome = NoneValue

\* C14: the reconciliation of every terminal payload returns, and what it
\* returns is None or a FileDependency that passes the validation of the
\* schema; it is None for a payload that is neither a str nor a FileDependency.
C14_ReconcilerIsTotal ==
    /\ reconciler \in {"called", "returned"}
    /\ reconciler = "called" => outcome = NotYet /\ ENABLED ReconcileNext
    /\ reconciler = "returned" =>
        /\ \/ outcome = NoneValue
           \/ /\ outcome.form = "FileDependency"
              /\ ~ValidationFails(outcome.fields)
        /\ payload.form \notin {"str", "FileDependency"} => outcome = NoneValue

\* C14 witness: a list of content blocks was reconciled to None.
C14_Witness ==
    /\ reconciler = "returned"
    /\ payload = ContentBlocks
    /\ outcome = NoneValue

\* session i is inside graph.ainvoke
Live(i) == Analyze(i) \/ Dispatch(i)

\* C15: a session invokes the read provider at most once, and exactly once
\* before its first model invocation; while the session runs, the memoized
\* content never changes, nothing is read again, and the human prompt of
\* every turn carries that same content.
C15_FileReadOnce ==
    /\ [](\A i \in Sessions :
            /\ reads[i] <= 1
            /\ llm_calls[i] >= 1 => reads[i] = 1
            /\ (Live(i) /\ llm_calls[i] >= 1) =>
                /\ file_content[i] # NoneValue
                /\ human_prompt[i] = file_content[i])
    /\ [][\A i \in Sessions :
            /\ (file_content[i] # NoneValue /\ Live(i)') =>
                /\ file_content'[i] = file_content[i]
                /\ reads'[i] = reads[i]
            /\ (human_prompt[i] # NoneValue /\ Live(i)') =>
                human_prompt'[i] = human_prompt[i]]_vars

\* C15 witness: a session in its second dispatch, after two model
\* invocations, has read its file once and sent the same text both times.
C15_Witness ==
    \E i \in Sessions :
        /\ Dispatch(i)
        /\ llm_calls[i] = 2
        /\ reads[i] = 1
        /\ human_prompt[i] = FileText(files[i])

\* session i has used up the turns the guard allows and its model asks for
\* tools again
OutOfTurns(i) ==
    /\ llm_calls[i] >= MaxTurns
    /\ response[i] # NoneValue
    /\ response[i].tool_calls # <<>>

\* C16 (as claimed): a maximum-turns guard set to MaxTurns ends a session whose
\* model still asks for tools on turn MaxTurns: the session is over with None
\* instead of dispatching again.
C16_TurnGuardEndsSession ==
    \A i \in Sessions :
        OutOfTurns(i) => Terminated(i) /\ ret[i] = NoneValue

\* session i waits for an invocation that never returns
Stalled(i) == pc[i] = "stalled"

\* C17 (as claimed): an invocation that never returns cannot hang the
\* coordinator: as long as ainvoke has not returned, some step of the program
\* can be taken (the timeout that ends the stalled session, or a step of
\* another session).
C17_StallCannotHang ==
    (batch = "running" /\ \E i \in Sessions : Stalled(i)) => ENABLED StallNext

\* the argument is absolute, or resolves outside the working directory
Unsafe(p) ==
    \/ p.absolute
    \/ ~IsRelativeTo(Resolve(working_directory, p.parts), working_directory)

\* the safety-violation string of the tool that was called
SafetyViolation ==
    IF tool = "ReadFileTool" THEN ReadUnsafeText(relative_path)
    ELSE SearchOutsideText(relative_path)

\* C18: a path-traversal argument or an absolute path given to the read tool
\* or the search tool comes back as the tool's safety-violation string: the
\* tool returns, it raises nothing, and run_tool hands the string to the
\* session as the observation of the call.
C18_UnsafePathIsObserved ==
    /\ tool_pc \in {"called", "checked", "returned"}
    /\ (tool_pc = "returned" /\ Unsafe(relative_path)) =>
          /\ observation = SafetyViolation
          /\ run_tool(ToolCall(1, tool), Return(observation))
                = ToolMessage(SafetyViolation, 1)

C18_Witness ==
    /\ tool = "ReadFileTool"
    /\ relative_path = PathOf(FALSE, <<"..", "..", "f">>)
    /\ tool_pc = "returned"
    /\ observation.text[1] = "Unsafe or invalid path provided: "

\* C19: the two tools read or walk only paths inside the working directory,
\* and an argument that is absolute or resolves outside it is rejected before
\* anything is read or walked.
C19_OnlyInsideWorkingRoot ==
    /\ \A p \in io : IsRelativeTo(p, working_directory)
    /\ Unsafe(relative_path) => (io = {} /\ tool_pc # "checked")
    /\ tool_pc = "checked" =>
          IsRelativeTo(RealPath(target_path[1]), working_directory)

C19_Witness ==
    /\ tool = "FileNameSearchTool"
    /\ relative_path = PathOf(FALSE, <<"a", "..">>)
    /\ tool_pc = "returned"
    /\ io = {<<"w">>, <<"w", "a">>}

\* the read tool returned lines of the file
ReturnedLines ==
    /\ tool = "ReadFileTool"
    /\ tool_pc = "returned"
    /\ observation.text[1] = "--- START OF FILE CONTENT FOR "

\* the last line the claim lets a read return
ClaimedLast ==
    IF limit = None THEN total_lines
    ELSE Min(offset + limit[1] - 1, total_lines)

\* the lines numbered offset .. ClaimedLast
ClaimedLines ==
    IF ClaimedLast < offset THEN <<>>
    ELSE SubSeq(FileLines(total_lines), offset, ClaimedLast)

\* C20 (as claimed): for a file of N lines, 1 <= offset <= N and any limit,
\* the read tool returns exactly the lines offset .. min(offset + limit - 1, N)
\* (offset .. N without a limit), never more lines than a limit that allows
\* some, and the line range of the header is the range returned.
C20_ReturnedRangeIsClaimed ==
    (ReturnedLines /\ 1 <= offset /\ offset <= total_lines) =>
        LET start_line == observation.text[3]
            end_line == observation.text[4]
            body == observation.text[7]
        IN  /\ body = ClaimedLines
            /\ (limit # None /\ limit[1] >= 0) => Len(body) <= limit[1]
            /\ body = [k \in 1..(end_line - start_line + 1) |->
                          start_line + k - 1]

\* the files among `rglob` the pattern matches
MatchingFiles(rglob) == {k \in DOMAIN rglob : rglob[k] = "match"}

\* C21 (as claimed): the search returns at most max_results paths, and it
\* reports truncation exactly when more than max_results files match: a
\* search with exactly max_results matching files is reported as complete.
C21_TruncatedOnlyWhenExceeded ==
    search_result # NotYet =>
        /\ Len(search_result.matched_files) <= max_results
        /\ search_result.truncated
              <=> Cardinality(MatchingFiles(entries)) > max_results
        /\ (search_result.output
                = SearchTruncatedText(search_result.matched_files))
              <=> Cardinality(MatchingFiles(entries)) > max_results

\* p is the text of a JSON object that holds the five fields, each of its
\* declared type, and fields the schema does not declare
CompleteWithExtra(p) ==
    /\ p.form = "str"
    /\ p.json.ok
    /\ FileDependencyFields \subseteq DOMAIN p.json.obj
    /\ DOMAIN p.json.obj # FileDependencyFields
    /\ \A k \in FileDependencyFields : p.json.obj[k].t = FieldType(k)

\* C22: the JSON text of an object with the five required fields and
\* undeclared ones besides is reconciled to a FileDependency that holds the
\* five fields and nothing else, each with the payload's value: the lists as
\* they were given, in their order and with their repetitions.
C22_ExtraFieldsIgnored ==
    (reconciler = "returned" /\ CompleteWithExtra(payload)) =>
        /\ outcome.form = "FileDependency"
        /\ DOMAIN outcome.fields = FileDependencyFields
        /\ \A k \in FileDependencyFields :
                outcome.fields[k] = payload.json.obj[k]

\* C22 witness: an object with an undeclared `imports` and the internal
\* dependencies ./a, ./b, ./a was reconciled to a record that lists ./a, ./b,
\* ./a and has no `imports`.
C22_Witness ==
    /\ reconciler = "returned"
    /\ payload.form = "str"
    /\ payload.json.ok
    /\ "imports" \in DOMAIN payload.json.obj
    /\ outcome.form = "FileDependency"
    /\ outcome.fields["internal_deps"] = JList(<<"./a", "./b", "./a">>)
    /\ "imports" \notin DOMAIN outcome.fields

\* the ways a session ends inside the try block of _ainvoke_single
EndedWith(i) ==
    IF raised[i] # "" THEN raised[i]
    ELSE IF ret[i] = NoneValue THEN "unresolved"
    ELSE "record"

\* C23: the free slots never exceed max_concurrency; once every session has
\* ended, by a record, an unresolved payload, a failure of the read, the
\* prompt, the model, a tool or the reconciliation, every slot is free again
\* and nobody is queued, and so it is when ainvoke returns.
C23_SlotsReleased ==
    /\ sem_value <= max_concurrency
    /\ (\A i \in Sessions : pc[i] = "done") =>
          /\ sem_value = max_concurrency
          /\ sem_waiters = <<>>
          /\ \A i \in Sessions :
                EndedWith(i) \in {"record", "unresolved", "reconcile"}
                                    \cup SessionSteps
    /\ batch = "returned" => sem_value = max_concurrency

\* C23 witness: limit 1, two files: the first session ended with a payload
\* that is not JSON, the second with content blocks, and the slot is free.
C23_Witness ==
    /\ batch = "returned"
    /\ max_concurrency = 1
    /\ Len(files) = 2
    /\ EndedWith(1) = "reconcile"
    /\ EndedWith(2) = "unresolved"
    /\ sem_value = 1

\* history h with its last message left out
ButLast(h) == SubSeq(h, 1, Len(h) - 1)

\* h2 is h1 with the messages `batch_of_messages` appended
Appends(h1, h2, batch_of_messages) == h2 = h1 \o batch_of_messages

\* C24: while a session runs its history only grows at the end: a step either
\* leaves it as it is, or appends the assistant turn just received, or
\* appends the tool results of the dispatch, one per call; and the model
\* invocation that produced the turn being dispatched was given the system
\* prompt, the human prompt with the file content, and then the whole history
\* as it stood, in its order.
C24_AppendOnlyHistory ==
    /\ [](\A i \in Sessions :
            Dispatch(i) =>
                llm_input[i] =
                    <<SystemMessage(SysPromptText),
                      HumanMessage(HumanPromptText(file_content[i]))>>
                        \o ButLast(messages[i]))
    /\ [][\A i \in Sessions :
            (Live(i) /\ Live(i)') =>
                \/ messages'[i] = messages[i]
                \/ /\ Analyze(i) /\ Dispatch(i)'
                   /\ Appends(messages[i], messages'[i], <<response'[i]>>)
                \/ /\ Dispatch(i) /\ Analyze(i)'
                   /\ Appends(messages[i], messages'[i], pending[i])
                   /\ Len(pending[i]) = Len(PendingCalls(i))
                   /\ \A k \in DOMAIN pending[i] : pending[i][k].type = "tool"]_vars

\* C24 witness: the second model invocation of a session was given the two
\* prompts, the first assistant turn and its tool result, and the history
\* now holds the second turn after them.
C24_Witness ==
    \E i \in Sessions :
        /\ Dispatch(i)
        /\ llm_calls[i] = 2
        /\ Len(llm_input[i]) = 4
        /\ llm_input[i][3].type = "ai"
        /\ llm_input[i][4].type = "tool"
        /\ Len(messages[i]) = 3

\* the calls of the turn session i dispatches that have not completed
Outstanding(i) == {k \in DOMAIN pending[i] : pending[i][k] = NotYet}

\* the results call c can produce, whatever else completes before or after it
ResultsOf(c) == {run_tool(c, o) : o \in ToolOutcomes(c)}

\* C25: during a dispatch every call that has not completed can complete
\* next, whichever completed before it; the result in a call's slot is one
\* its own call can produce and carries its identifier, so the batch that is
\* appended holds the same (identifier, observation) pairs for every order
\* of completion; and while a call is outstanding neither tool_node returns
\* nor the model is invoked, which both become possible once none is.
C25_CompletionOrderIrrelevant ==
    \A i \in Sessions :
        Dispatch(i) =>
            /\ \A k \in DOMAIN pending[i] \ Outstanding(i) :
                /\ pending[i][k] \in ResultsOf(PendingCalls(i)[k])
                /\ pending[i][k].tool_call_id = PendingCalls(i)[k].id
            /\ Resumes(i, "tools") =>
                /\ \A k \in Outstanding(i) : ENABLED RunTool(i, k)
                /\ Outstanding(i) = {} <=> ENABLED ToolNodeReturns(i)
            /\ ~ENABLED ModelRequestsTools(i)
            /\ ~ENABLED ModelAnswers(i)

\* C25 witness: of the two calls of a turn the second has completed and the
\* first has not.
C25_Witness ==
    \E i \in Sessions :
        /\ Dispatch(i)
        /\ Len(pending[i]) = 2
        /\ Outstanding(i) = {1}
        /\ PendingCalls(i)[1].name \in tools_by_name

\* what a read of file f can give
ContentsOf(f) == {FileText(f), ReadErrorText(f)}

\* the assistant turns and the tool results in history h
TurnsIn(h) == {q \in DOMAIN h : h[q].type = "ai"}

ResultsIn(h) == {q \in DOMAIN h : h[q].type = "tool"}

\* the tool calls of the turns of history h
RECURSIVE CallsIn(_)
CallsIn(h) ==
    IF h = <<>> THEN 0
    ELSE CallsIn(ButLast(h))
            + (IF h[Len(h)].type = "ai" THEN Len(h[Len(h)].tool_calls) ELSE 0)

\* C26: whatever the other sessions do, what session i memoizes and embeds
\* in its prompts is what a read of files[i] gives, and its history holds its
\* own messages and no others: as many assistant turns as it made model
\* invocations, and as many tool results as the calls of its turns whose
\* dispatch is over.
C26_SessionsAreIsolated ==
    \A i \in Sessions :
        /\ file_content[i] \in {NoneValue} \cup ContentsOf(files[i])
        /\ human_prompt[i] \in {NoneValue} \cup ContentsOf(files[i])
        /\ Dispatch(i) =>
            /\ llm_input[i][2] \in
                    {HumanMessage(HumanPromptText(c)) : c \in ContentsOf(files[i])}
            /\ Cardinality(ResultsIn(messages[i])) + Len(pending[i])
                    = CallsIn(messages[i])
        /\ Live(i) => Cardinality(TurnsIn(messages[i])) = llm_calls[i]
        /\ Analyze(i) =>
                Cardinality(ResultsIn(messages[i])) = CallsIn(messages[i])

\* C26 witness: two sessions are dispatching at the same time, each with the
\* content of its own file in its prompt and its own turn in its history.
C26_Witness ==
    /\ Len(files) = 2
    /\ Dispatch(1) /\ Dispatch(2)
    /\ human_prompt[1] = FileText(files[1])
    /\ human_prompt[2] = FileText(files[2])
    /\ Len(messages[1]) = 1 /\ Len(messages[2]) = 1
    /\ PendingCalls(1)[1].name # PendingCalls(2)[1].name

\* the step is a model invocation of session i that returned
ModelReturned(i) ==
    /\ Analyze(i)
    /\ llm_calls'[i] = llm_calls[i] + 1
    /\ raised'[i] \notin SessionSteps

\* C27: `dependencies` is absent in every state in which the session has not
\* terminated, assistant turns that ask for tools leave it absent, and it is
\* set once: by the step that takes the session from ANALYZE to TERMINATED,
\* to the content of the turn received; a model invocation that returns is
\* routed to END exactly when it set the outcome, and a terminated session's
\* outcome does not change.
C27_OutcomeSetAtTermination ==
    /\ [](\A i \in Sessions :
            /\ ~Terminated(i) => dependencies[i] = NoneValue
            /\ Dispatch(i) => should_continue(response[i]) = "tool_node"
            /\ TerminatedNormally(i) =>
                /\ dependencies[i] # NoneValue
                /\ should_continue(response[i]) = "END")
    /\ [][\A i \in Sessions :
            /\ dependencies'[i] # dependencies[i] =>
                /\ ModelReturned(i)
                /\ Terminated(i)'
                /\ dependencies[i] = NoneValue
                /\ dependencies'[i] = response'[i].content
            /\ ModelReturned(i) =>
                /\ should_continue(response'[i]) = "END"
                        <=> dependencies'[i] # NoneValue
                /\ should_continue(response'[i]) = "END" <=> Terminated(i)'
            /\ Terminated(i) => dependencies'[i] = dependencies[i]]_vars

\* C27 witness: a session terminated with its outcome set after a turn that
\* asked for tools and left it absent.
C27_Witness ==
    \E i \in Sessions :
        /\ TerminatedNormally(i)
        /\ dispatches[i] = 1
        /\ llm_calls[i] = 2
        /\ dependencies[i] = Str(<<"not json">>, NotJson)

\* the tool results session i holds: in its history and in the slots of the
\* dispatch under way
ToolResults(i) ==
    {messages[i][q] : q \in ResultsIn(messages[i])}
        \cup {pending[i][k] : k \in DOMAIN pending[i] \ Outstanding(i)}

\* the tools that ran for session i: those whose observation came back
ToolsRun(i) ==
    {name \in PackageToolNames :
        \E m \in ToolResults(i) : m.content = ObservationOf(name)}

\* the file-system operations session i has performed: the read of node
\* (line 32) and what the tools that ran do
FsOps(i) ==
    (IF reads[i] > 0 THEN {<<"read", files[i]>>} ELSE {})
        \cup {<<ToolEffect(name), "working directory">> : name \in ToolsRun(i)}

\* C28: whatever tools the model asks for, write tool included, the only
\* file-system operations of a session are the read of its target file and
\* name searches: a call of any other tool of the package is answered by an
\* error observation and that tool does not run.
C28_ReadAndSearchOnly ==
    \A i \in Sessions :
        /\ FsOps(i) \subseteq {<<"read", files[i]>>,
                               <<"search", "working directory">>}
        /\ reads[i] <= 1
        /\ \A m \in ToolResults(i) :
              \/ m.content = SearchObservation
              \/ m.content \in {ToolErrorText(e) :
                                  e \in PackageToolNames \cup {"ValidationError"}}

\* C28 witness: the model asked for the write tool and for a search in one
\* turn; the write was answered by an error, the search ran.
C28_Witness ==
    \E i \in Sessions :
        /\ Analyze(i)
        /\ Len(messages[i]) = 3
        /\ messages[i][1].tool_calls[1].name = "WriteFileTool"
        /\ messages[i][2].content = ToolErrorText("WriteFileTool")
        /\ messages[i][3].content = SearchObservation
        /\ FsOps(i) = {<<"read", files[i]>>, <<"search", "working directory">>}

\* C29: with max_concurrency >= 1 the batch never stops short of its end: as
\* long as ainvoke has not returned, some step of the batch can be taken (a
\* queued session is admitted, a session moves on or finishes, or gather
\* hands the results to ainvoke). The model and tool steps of the batch
\* always have an outcome and the model is capped at MaxToolCalls tool
\* calls, so that every run reaches a state where no step is left; the
\* claim is that this state is the one where ainvoke has returned.
C29_BatchRunsToItsEnd ==
    (max_concurrency >= 1 /\ batch # "returned") => ENABLED Next

\* the read of session i's target file gave the error string, and node holds
\* it as the file content
ReadGaveError(i) == file_content[i] = ReadErrorText(files[i])

\* C30: an error string from the read of the target file is content like any
\* other. The session that holds it is running, with no value returned and
\* no exception raised; the human prompt of its model invocations embeds the
\* error text; a session that is over without the read or the prompt having
\* raised has invoked the model; and the step that ends a session holding
\* the error string is a model invocation (whose entry is what the reconciler
\* makes of the turn's content, None if the invocation raised) unless the
\* prompt could not be loaded.
C30_ReadErrorIsContent ==
    /\ [](\A i \in Sessions :
            /\ ReadGaveError(i) =>
                /\ Live(i)
                /\ ret[i] = NotYet
                /\ raised[i] = ""
                /\ reads[i] = 1
                /\ human_prompt[i] \in {NoneValue, ReadErrorText(files[i])}
                /\ Dispatch(i) =>
                    /\ human_prompt[i] = ReadErrorText(files[i])
                    /\ llm_input[i][2] =
                          HumanMessage(HumanPromptText(ReadErrorText(files[i])))
            /\ (Terminated(i) /\ reads[i] >= 1
                    /\ raised[i] \notin {"read", "prompt"}) =>
                llm_calls[i] >= 1)
    /\ [][\A i \in Sessions :
            (ReadGaveError(i) /\ Terminated(i)') =>
                \/ raised'[i] = "prompt" /\ ret'[i] = NoneValue
                \/ /\ llm_calls'[i] = llm_calls[i] + 1
                   /\ raised'[i] = "model" /\ ret'[i] = NoneValue
                \/ /\ llm_calls'[i] = llm_calls[i] + 1
                   /\ raised'[i] \in {"", "reconcile"}
                   /\ response'[i].tool_calls = <<>>
                   /\ ret'[i] = Reconcile(response'[i].content)]_vars

\* C30 witness: a session holds the error string as its file content, has
\* sent it to the model in the human prompt and had a tool round trip, and
\* the model can now answer with a payload the reconciler turns into a
\* record.
C30_Witness ==
    \E i \in Sessions :
        /\ ReadGaveError(i)
        /\ Analyze(i)
        /\ llm_calls[i] = 1
        /\ human_prompt[i] = ReadErrorText(files[i])
        /\ \E content \in Payloads(files[i]) :
                /\ Reconcile(content).form = "FileDependency"
                /\ ENABLED (/\ ModelResponds(i, AIMessage(content, <<>>))
                            /\ ret'[i] = Reconcile(content))

(***************************************************************************)
(* One GraphDependencyResolver whose compiled graph is run several times,  *)
(* one run after the other, each on a target file no earlier run had:      *)
(* build() (lines 82-91) registers the bound methods self.node and         *)
(* self.tool_node, so that every run works on the fields of the one        *)
(* instance; __init__ (line 29) is the only place file_content is set to   *)
(* None.                                                                   *)
(***************************************************************************)
\* the target files the runs may be given
RunTargets == {FileName(k) : k \in 1..MaxRuns}

\* line 32: the content node works with, `read` being what
\* read_file_tool.arun would return for state['target_file']
NodeFileContent(memo, read) == IF memo = NoneValue THEN read ELSE memo

\* what read_file_tool.arun returns for file f: its text or an error string
ReadResults(f) == {FileText(f), ReadErrorText(f)}

ReuseInit ==
    /\ BatchIdle
    /\ ReconcilerIdle
    /\ ToolIdle
    /\ SearchIdle
    /\ PrepIdle
    /\ CleanIdle
    /\ driver_content = NoneValue
    /\ target_file = <<>>
    /\ run_prompt = NoneValue
    /\ run_turns = 0
    /\ earlier_targets = {}
    /\ graph_pc = "built"

\* graph.ainvoke({"target_file": f, ...}) on the compiled graph: START -> llm
GraphInvoke(f) ==
    /\ graph_pc \in {"built", "ended", "raised"}
    /\ f \notin earlier_targets
    /\ target_file' = f
    /\ earlier_targets' = earlier_targets \cup {f}
    /\ run_prompt' = NoneValue
    /\ run_turns' = 0
    /\ graph_pc' = "llm"
    /\ UNCHANGED <<batch_vars, reconciler_vars, tool_vars, search_vars, prep_vars, clean_vars,
                   driver_content>>

\* lines 32-43: node reads or reuses file_content, builds the prompts,
\* invokes the model; the turn carries tool calls, the route is tool_node
RunNodeRequestsTools ==
    /\ graph_pc = "llm"
    /\ run_turns < MaxTurns
    /\ \E read \in ReadResults(target_file) :
        /\ driver_content' = NodeFileContent(driver_content, read)
        /\ run_prompt' = NodeFileContent(driver_content, read)
    /\ run_turns' = run_turns + 1
    /\ graph_pc' = "tool_node"
    /\ UNCHANGED <<batch_vars, reconciler_vars, tool_vars, search_vars, prep_vars, clean_vars,
                   target_file, earlier_targets>>

\* lines 32-45: the same with a turn that carries no tool call, the route
\* is END
RunNodeAnswers ==
    /\ graph_pc = "llm"
    /\ \E read \in ReadResults(target_file) :
        /\ driver_content' = NodeFileContent(driver_content, read)
        /\ run_prompt' = NodeFileContent(driver_content, read)
    /\ run_turns' = run_turns + 1
    /\ graph_pc' = "ended"
    /\ UNCHANGED <<batch_vars, reconciler_vars, tool_vars, search_vars, prep_vars, clean_vars,
                   target_file, earlier_targets>>

\* line 32: read_file_tool.arun raises, nothing is memoized
RunReadRaises ==
    /\ graph_pc = "llm"
    /\ driver_content = NoneValue
    /\ graph_pc' = "raised"
    /\ UNCHANGED <<batch_vars, reconciler_vars, tool_vars, search_vars, prep_vars, clean_vars,
                   driver_content, target_file, run_prompt, run_turns,
                   earlier_targets>>

\* line 33: get_prompt raises after the content was memoized
RunPromptRaises ==
    /\ graph_pc = "llm"
    /\ \E read \in ReadResults(target_file) :
        driver_content' = NodeFileContent(driver_content, read)
    /\ graph_pc' = "raised"
    /\ UNCHANGED <<batch_vars, reconciler_vars, tool_vars, search_vars, prep_vars, clean_vars,
                   target_file, run_prompt, run_turns, earlier_targets>>

\* line 41: llm.ainvoke raises, the prompts were built
RunModelRaises ==
    /\ graph_pc = "llm"
    /\ \E read \in ReadResults(target_file) :
        /\ driver_content' = NodeFileContent(driver_content, read)
        /\ run_prompt' = NodeFileContent(driver_content, read)
    /\ run_turns' = run_turns + 1
    /\ graph_pc' = "raised"
    /\ UNCHANGED <<batch_vars, reconciler_vars, tool_vars, search_vars, prep_vars, clean_vars,
                   target_file, earlier_targets>>

\* lines 47-68: tool_node answers the calls, the edge leads back to llm
RunToolNode ==
    /\ graph_pc = "tool_node"
    /\ graph_pc' = "llm"
    /\ UNCHANGED <<batch_vars, reconciler_vars, tool_vars, search_vars, prep_vars, clean_vars,
                   driver_content, target_file, run_prompt, run_turns,
                   earlier_targets>>

ReuseNext ==
    \/ \E f \in RunTargets : GraphInvoke(f)
    \/ RunNodeRequestsTools
    \/ RunNodeAnswers
    \/ RunReadRaises
    \/ RunPromptRaises
    \/ RunModelRaises
    \/ RunToolNode

ReuseSpec == ReuseInit /\ [][ReuseNext]_vars

\* C31: in every run of the one compiled graph, the human prompt given to
\* the model embeds what a read of that run's own target file gives.
C31_RunAnalysesOwnFile ==
    run_prompt # NoneValue => run_prompt \in ReadResults(target_file)

\* the files whose content could be shown to a model: the targets of a
\* batch, and the file a read call would name
KnownFiles == {FileName(k) : k \in 0..MaxFiles}

\* the files whose content message m carries, as an observation or embedded
\* in a human prompt
FilesShownBy(m) ==
    {f \in KnownFiles :
        \/ m.content = FileText(f)
        \/ m.content = HumanPromptText(FileText(f))}

\* the tool calls of the assistant turns in session i's history
CallsOf(i) ==
    UNION {{messages[i][p].tool_calls[k] : k \in DOMAIN messages[i][p].tool_calls} :
                p \in TurnsIn(messages[i])}

\* C32: the dispatcher knows one tool, the name search. A call that names
\* the read tool, or any other tool of the package, is answered by the error
\* observation of that call and its identifier; no tool result carries file
\* content; and in the messages given to the model the only file content is
\* the target file's, in the human prompt.
C32_OnlyTargetFileContent ==
    \A i \in Sessions :
        /\ \A m \in ToolResults(i) :
            /\ FilesShownBy(m) = {}
            /\ \A c \in CallsOf(i) :
                (c.id = m.tool_call_id /\ c.name # "FileNameSearchTool") =>
                    m = ErrorObservation(c, c.name)
        /\ \A q \in DOMAIN llm_input[i] :
            FilesShownBy(llm_input[i][q]) # {} =>
                /\ q = 2
                /\ FilesShownBy(llm_input[i][q]) = {files[i]}

\* C32 witness: the model asked for the read tool, the call was answered by
\* its error observation, and the next model invocation was given that
\* observation and the target file's content in the human prompt.
C32_Witness ==
    \E i \in Sessions :
        /\ Dispatch(i)
        /\ Len(llm_input[i]) = 4
        /\ llm_input[i][2] = HumanMessage(HumanPromptText(FileText(files[i])))
        /\ llm_input[i][3].tool_calls[1].name = "ReadFileTool"
        /\ llm_input[i][4] = ErrorObservation(llm_input[i][3].tool_calls[1],
                                              "ReadFileTool")

\* C33: with no slot and a file to analyse, no session gets past the
\* limiter: every session is unstarted, queued, or failed in its
\* construction, none has read its file or invoked the model or returned,
\* and ainvoke has not returned. With no file, ainvoke can return at once
\* and returns the empty list; no slot was taken, nobody queued, and no
\* model was invoked.
C33_ZeroSlotsAndEmptyBatch ==
    /\ (max_concurrency = 0 /\ files # <<>>) =>
        /\ batch # "returned"
        /\ sem_value = 0
        /\ sem_woken = {}
        /\ \A i \in Sessions :
            /\ pc[i] \in {"new", "waiting", "raised"}
            /\ llm_calls[i] = 0
            /\ reads[i] = 0
            /\ ret[i] = NotYet
    /\ files = <<>> =>
        /\ batch \in {"running", "returned"}
        /\ batch = "running" => ENABLED GatherReturns
        /\ batch = "returned" => deps = <<>>
        /\ sem_value = max_concurrency
        /\ sem_waiters = <<>>
        /\ calls_issued = 0

\* C33 witness: the limiter has no slot and every session of a batch of two
\* files or more is queued on it; nothing more can happen.
C33_Witness ==
    /\ max_concurrency = 0
    /\ Len(files) >= 2
    /\ \A i \in Sessions : pc[i] = "waiting"
    /\ Len(sem_waiters) = Len(files)
    /\ batch = "running"
    /\ ~ENABLED Next

\* the offset names no line of the file: it is below 1, or past the last line
OffsetOutOfRange == offset < 1 \/ offset - 1 >= total_lines

\* C34: a read of an existing file with an offset below 1, or with
\* offset - 1 at or past the line count, returns an error string and no
\* content: the offset error of the validation (the file is not opened), or
\* the offset-past-the-end error of the slicing, or the error of a read that
\* failed; so that an empty file read with offset 1 gives the
\* offset-past-the-end error.
C34_OffsetOutOfRangeIsError ==
    (tool = "ReadFileTool" /\ tool_pc = "returned" /\ OffsetOutOfRange) =>
        /\ ~ReturnedLines
        /\ observation.text[1] \in
                {"ERROR: Offset must be 1 or greater, but received ",
                 "ERROR: Offset line ",
                 "ERROR: An unexpected error occurred while reading "}
        /\ offset < 1 => (observation = ReadOffsetText(offset) /\ io = {})
        /\ (offset >= 1 /\ observation # ReadUnexpectedText(relative_path)) =>
                observation = ReadBeyondText(offset, total_lines)

\* C34 witness: an existing empty file was read with offset 1 and the tool
\* returned the offset-past-the-end error.
C34_Witness ==
    /\ tool = "ReadFileTool"
    /\ tool_pc = "returned"
    /\ total_lines = 0
    /\ offset = 1
    /\ io # {}
    /\ observation = ReadBeyondText(1, 0)

(***************************************************************************)
(* FilePreprocessor.process_async (utils/file_pre_processor.py): the walk  *)
(* of the source directory, one _process_single_file task per file that is *)
(* not ignored, and the collector, over what os.walk yields. The queue is  *)
(* unbounded: result_queue.put never suspends, so that the walk (lines     *)
(* 201-242) runs before any task starts.                                   *)
(***************************************************************************)
\* what the walk makes of an entry: a directory a pattern ignores, a file
\* _should_ignore_file gives a reason for, a file to process
WalkedKinds == {"ignored_dir", "ignored_file", "file"}

\* the reasons of _should_ignore_file (lines 79-93)
FileIgnoreReasons ==
    {"IGNORED_BY_FILE_GLOB_RULE", "EMPTY_FILE", "LARGE_FILE", "ERROR_READING_SIZE"}

\* utils/models/pre_processor_models.py; `entry` stands for file_name and
\* file_path
ProcessedFileDTO(entry) == [dto |-> "ProcessedFileDTO", entry |-> entry]

UnProcessedFileDTO(entry, reason) ==
    [dto |-> "UnProcessedFileDTO", entry |-> entry, ignore_reason |-> reason]

\* the entries of the walk
Walked == DOMAIN walked

\* the tasks process_async has created
Workers == {e \in Walked : worker[e] # "none"}

PrepInit ==
    /\ BatchIdle
    /\ ReconcilerIdle
    /\ ToolIdle
    /\ SearchIdle
    /\ GraphIdle
    /\ CleanIdle
    /\ walked \in UNION {[1..n -> WalkedKinds] : n \in 0..MaxWalked}
    /\ prep_concurrency \in 0..MaxConcurrency
    /\ limiter = [value |-> prep_concurrency, waiters |-> <<>>, woken |-> {}]
    /\ walk_index = 1
    /\ expected_results = 0
    /\ result_queue = <<>>
    /\ worker = [e \in Walked |-> "none"]
    /\ collected = [processed |-> <<>>, ignored |-> <<>>]
    /\ collector_pc = "none"
    /\ prep_pc = "walking"

\* what no step of process_async changes
prep_inputs == <<batch_vars, reconciler_vars, tool_vars, search_vars, graph_vars,
                 clean_vars, walked, prep_concurrency>>

\* lines 203-218: the walk meets a directory a pattern ignores
WalkIgnoresDirectory ==
    /\ prep_pc = "walking"
    /\ walk_index \in Walked
    /\ walked[walk_index] = "ignored_dir"
    /\ result_queue' = Append(result_queue,
            UnProcessedFileDTO(walk_index, "IGNORED_BY_DIRECTORY_GLOB_RULE"))
    /\ expected_results' = expected_results + 1
    /\ walk_index' = walk_index + 1
    /\ UNCHANGED <<prep_inputs, limiter, worker, collected, collector_pc, prep_pc>>

\* lines 220-234: the walk meets a file _should_ignore_file gives a reason for
WalkIgnoresFile ==
    /\ prep_pc = "walking"
    /\ walk_index \in Walked
    /\ walked[walk_index] = "ignored_file"
    /\ \E reason \in FileIgnoreReasons :
        result_queue' = Append(result_queue, UnProcessedFileDTO(walk_index, reason))
    /\ expected_results' = expected_results + 1
    /\ walk_index' = walk_index + 1
    /\ UNCHANGED <<prep_inputs, limiter, worker, collected, collector_pc, prep_pc>>

\* lines 236-242: the walk meets a file to process and creates its task
WalkCreatesTask ==
    /\ prep_pc = "walking"
    /\ walk_index \in Walked
    /\ walked[walk_index] = "file"
    /\ worker' = [worker EXCEPT ![walk_index] = "new"]
    /\ expected_results' = expected_results + 1
    /\ walk_index' = walk_index + 1
    /\ UNCHANGED <<prep_inputs, limiter, result_queue, collected, collector_pc,
                   prep_pc>>

\* lines 244-248: the walk is over; the collector task is created and
\* process_async awaits the gather of the workers
WalkEnds ==
    /\ prep_pc = "walking"
    /\ walk_index \notin Walked
    /\ collector_pc' = "collecting"
    /\ prep_pc' = "gathering"
    /\ UNCHANGED <<prep_inputs, limiter, walk_index, expected_results,
                   result_queue, worker, collected>>

\* the tasks run their first steps in the order of their creation, once
\* process_async is suspended in gather
NextWorker(e) ==
    /\ prep_pc = "gathering"
    /\ worker[e] = "new"
    /\ \A d \in Walked : d < e => worker[d] # "new"

\* a task, or the collector, that runs after the first steps of the workers
WorkerResumes(e, at) ==
    /\ prep_pc = "gathering"
    /\ worker[e] = at
    /\ \A d \in Walked : worker[d] # "new"

\* lines 118-124: the semaphore has a free slot; the task takes it, makes
\* the destination directory and opens the source file
WorkerAdmitted(e) ==
    /\ NextWorker(e)
    /\ ~Locked(limiter.value, limiter.waiters)
    /\ limiter' = [limiter EXCEPT !.value = @ - 1]
    /\ worker' = [worker EXCEPT ![e] = "reading"]
    /\ UNCHANGED <<prep_inputs, walk_index, expected_results, result_queue,
                   collected, collector_pc, prep_pc>>

\* line 118: the semaphore is locked; the task queues
WorkerQueued(e) ==
    /\ NextWorker(e)
    /\ Locked(limiter.value, limiter.waiters)
    /\ limiter' = [limiter EXCEPT !.waiters = Append(@, e)]
    /\ worker' = [worker EXCEPT ![e] = "waiting"]
    /\ UNCHANGED <<prep_inputs, walk_index, expected_results, result_queue,
                   collected, collector_pc, prep_pc>>

\* line 118: a queued task whose future a release has set enters the block
WorkerWoken(e) ==
    /\ WorkerResumes(e, "waiting")
    /\ e \in limiter.woken
    /\ LET q == Remove(limiter.waiters, e)
           r == WakeWhile(limiter.value, q, limiter.woken \ {e})
       IN  limiter' = [value |-> r.value, waiters |-> q, woken |-> r.woken]
    /\ worker' = [worker EXCEPT ![e] = "reading"]
    /\ UNCHANGED <<prep_inputs, walk_index, expected_results, result_queue,
                   collected, collector_pc, prep_pc>>

\* the exit of `async with self.semaphore` (line 118)
LimiterReleased ==
    LET r == SemRelease(limiter.value, limiter.waiters, limiter.woken)
    IN  [value |-> r.value, waiters |-> limiter.waiters, woken |-> r.woken]

\* the task of entry e puts `item` and leaves the semaphore block
WorkerEnds(e, item) ==
    /\ result_queue' = Append(result_queue, item)
    /\ limiter' = LimiterReleased
    /\ worker' = [worker EXCEPT ![e] = "done"]
    /\ UNCHANGED <<prep_inputs, walk_index, expected_results, collected,
                   collector_pc, prep_pc>>

\* lines 124-129: the content is read and cleaned, the destination is opened
WorkerReads(e) ==
    /\ WorkerResumes(e, "reading")
    /\ worker' = [worker EXCEPT ![e] = "writing"]
    /\ UNCHANGED <<prep_inputs, limiter, walk_index, expected_results,
                   result_queue, collected, collector_pc, prep_pc>>

\* mutant of WorkerFindsBinary: a file that does not decode is passed over
WorkerFindsBinarySilently(e) ==
    /\ WorkerResumes(e, "reading")
    /\ limiter' = LimiterReleased
    /\ worker' = [worker EXCEPT ![e] = "done"]
    /\ UNCHANGED <<prep_inputs, walk_index, expected_results, result_queue,
                   collected, collector_pc, prep_pc>>

\* lines 141-148: the read raises UnicodeDecodeError
WorkerFindsBinary(e) ==
    /\ WorkerResumes(e, "reading")
    /\ WorkerEnds(e, UnProcessedFileDTO(e, "BINARY_CONTENT_DETECTED"))

\* lines 149-156: mkdir, open or read raises another exception
WorkerReadFails(e) ==
    /\ WorkerResumes(e, "reading")
    /\ WorkerEnds(e, UnProcessedFileDTO(e, "ERROR: read"))

\* lines 130-139: the content is written and the ProcessedFileDTO is put
WorkerWrites(e) ==
    /\ WorkerResumes(e, "writing")
    /\ WorkerEnds(e, ProcessedFileDTO(e))

\* lines 149-156: the write raises
WorkerWriteFails(e) ==
    /\ WorkerResumes(e, "writing")
    /\ WorkerEnds(e, UnProcessedFileDTO(e, "ERROR: write"))

\* the number of items the collector has taken
Collected == Len(collected.processed) + Len(collected.ignored)

\* lines 171-179: one turn of the collector's loop, queue.get returns
CollectorGets ==
    /\ collector_pc = "collecting"
    /\ \A d \in Walked : worker[d] # "new"
    /\ Collected < expected_results
    /\ result_queue # <<>>
    /\ LET item == Head(result_queue)
       IN  collected' =
                IF item.dto = "ProcessedFileDTO"
                THEN [collected EXCEPT !.processed = Append(@, item)]
                ELSE [collected EXCEPT !.ignored = Append(@, item)]
    /\ result_queue' = Tail(result_queue)
    /\ UNCHANGED <<prep_inputs, limiter, walk_index, expected_results, worker,
                   collector_pc, prep_pc>>

\* line 181: the loop has made expected_items turns
CollectorReturns ==
    /\ collector_pc = "collecting"
    /\ \A d \in Walked : worker[d] # "new"
    /\ Collected = expected_results
    /\ collector_pc' = "done"
    /\ UNCHANGED <<prep_inputs, limiter, walk_index, expected_results,
                   result_queue, worker, collected, prep_pc>>

\* line 248: every task has returned, process_async awaits the collector
PrepGatherReturns ==
    /\ prep_pc = "gathering"
    /\ \A e \in Workers : worker[e] = "done"
    /\ prep_pc' = "collecting"
    /\ UNCHANGED <<prep_inputs, limiter, walk_index, expected_results,
                   result_queue, worker, collected, collector_pc>>

\* lines 249-251: the collector has returned, process_async returns its lists
ProcessReturns ==
    /\ prep_pc = "collecting"
    /\ collector_pc = "done"
    /\ prep_pc' = "returned"
    /\ UNCHANGED <<prep_inputs, limiter, walk_index, expected_results,
                   result_queue, worker, collected, collector_pc>>

PrepNext ==
    \/ WalkIgnoresDirectory
    \/ WalkIgnoresFile
    \/ WalkCreatesTask
    \/ WalkEnds
    \/ \E e \in Walked : WorkerAdmitted(e)
    \/ \E e \in Walked : WorkerQueued(e)
    \/ \E e \in Walked : WorkerWoken(e)
    \/ \E e \in Walked : WorkerReads(e)
    \/ \E e \in Walked : WorkerFindsBinary(e)
    \/ \E e \in Walked : WorkerReadFails(e)
    \/ \E e \in Walked : WorkerWrites(e)
    \/ \E e \in Walked : WorkerWriteFails(e)
    \/ CollectorGets
    \/ CollectorReturns
    \/ PrepGatherReturns
    \/ ProcessReturns

\* every step that can be taken is taken in the end: the event loop runs
\* every task that is ready
PrepSpec == PrepInit /\ [][PrepNext]_vars /\ WF_vars(PrepNext)

\* the tasks that hold a slot of the semaphore: a file is read or written
InFlight == {e \in Workers : worker[e] \in {"reading", "writing"}}

\* the items put for entry e that are in the queue or with the collector
ItemsOf(e) ==
    LET all == result_queue \o collected.processed \o collected.ignored
    IN  {k \in DOMAIN all : all[k].entry = e}

\* entry e has been dealt with: the walk ignored it, or its task is over
Accounted(e) ==
    \/ e < walk_index /\ walked[e] # "file"
    \/ worker[e] = "done"

\* what holds of every state of process_async, whatever max_concurrency is
PrepAccounting ==
    /\ Cardinality(InFlight) <= prep_concurrency
    /\ expected_results = walk_index - 1
    /\ \A e \in Walked :
        Cardinality(ItemsOf(e)) = IF Accounted(e) THEN 1 ELSE 0
    /\ \A k \in DOMAIN collected.processed :
        collected.processed[k].dto = "ProcessedFileDTO"
    /\ \A k \in DOMAIN collected.ignored :
        collected.ignored[k].dto = "UnProcessedFileDTO"
    /\ Collected <= expected_results
    /\ collector_pc = "done" => Collected = expected_results
    /\ prep_pc = "returned" =>
        /\ collector_pc = "done"
        /\ result_queue = <<>>
        /\ expected_results = Len(walked)
        /\ Len(collected.processed) + Len(collected.ignored) = expected_results
        /\ \A e \in Walked : Accounted(e)

\* C35 (as claimed): whatever max_concurrency is, as long as process_async
\* has not returned a step of the walk, of a task or of the collector can be
\* taken: the collector gets its expected_results items and process_async
\* returns.
C35_CollectorAlwaysTerminates ==
    prep_pc # "returned" => ENABLED PrepNext

\* C35 (amended): every walked entry is accounted for exactly once: an
\* ignored directory, an ignored file and a task that is over (content
\* written, binary content, any other error) each have exactly one item, in
\* the queue or with the collector; at most max_concurrency tasks read or
\* write at any time; the collector takes no more than expected_results
\* items and returns with exactly that many; and with max_concurrency >= 1
\* process_async returns, with len(processed) + len(ignored) =
\* expected_results, the number of entries.
C35_EveryEntryAccountedOnce ==
    /\ []PrepAccounting
    /\ prep_concurrency >= 1 => <>(prep_pc = "returned")

\* C35 witness: with one slot, process_async returned after a walk with an
\* ignored directory and two files to process, of which one was written and
\* one was found binary after it had queued for the slot.
C35_Witness ==
    /\ prep_pc = "returned"
    /\ prep_concurrency = 1
    /\ Cardinality(Workers) >= 2
    /\ limiter.value = 1
    /\ Len(collected.processed) >= 1
    /\ \E k \in DOMAIN collected.ignored :
        collected.ignored[k].ignore_reason = "BINARY_CONTENT_DETECTED"
    /\ \E k \in DOMAIN collected.ignored :
        collected.ignored[k].ignore_reason = "IGNORED_BY_DIRECTORY_GLOB_RULE"

(***************************************************************************)
(* FilePreprocessor._cleanup_target (lines 257-268), which                 *)
(* process_async(clean_first=True) runs first (lines 194-195), over the    *)
(* directories the constructor may be given. __init__ resolves source_dir  *)
(* and target_dir (lines 32-33) and joins output_subdir to target_dir as   *)
(* it is (line 37). The source directory exists.                           *)
(***************************************************************************)
\* the names of directories, and what an output_subdir may be made of
DirNames == {"src", "out"}

SubdirNames == DirNames \cup {".."}

\* resolved directories of 1..MaxDepth components
ResolvedDirs == UNION {[1..n -> DirNames] : n \in 1..MaxDepth}

\* the output_subdir arguments: relative or absolute, ".." allowed
Subdirs ==
    {PathOf(abs, parts) :
        abs \in BOOLEAN,
        parts \in UNION {[1..n -> SubdirNames] : n \in 0..MaxDepth}}

\* line 37: self.target_dir / self.output_subdir; joining an absolute path
\* gives that path
output_root ==
    IF output_subdir.absolute THEN output_subdir.parts
    ELSE target_dir \o output_subdir.parts

\* the directory the operating system finds at output_root
OutputRootOnDisk == Resolve(<<>>, output_root)

\* output_root names, without any "..", the source directory or a directory
\* above it: it exists, as the source directory does
NamesSourceOrParent ==
    /\ \A k \in DOMAIN output_root : output_root[k] # ".."
    /\ IsRelativeTo(source_dir, output_root)

CleanInit ==
    /\ BatchIdle
    /\ ReconcilerIdle
    /\ ToolIdle
    /\ SearchIdle
    /\ GraphIdle
    /\ PrepIdle
    /\ source_dir \in ResolvedDirs
    /\ target_dir \in ResolvedDirs
    /\ output_subdir \in Subdirs
    /\ output_exists \in BOOLEAN
    /\ NamesSourceOrParent => output_exists
    /\ removed = None
    /\ clean_pc = "called"

\* what the cleanup does not change
clean_inputs == <<batch_vars, reconciler_vars, tool_vars, search_vars, graph_vars,
                  prep_vars, source_dir, target_dir, output_subdir>>

\* lines 258-262: source and target are the same directory, nothing is done
CleanupAborts ==
    /\ clean_pc = "called"
    /\ source_dir = target_dir
    /\ clean_pc' = "returned"
    /\ UNCHANGED <<clean_inputs, output_exists, removed>>

\* lines 264-266: output_root exists and is removed with all it holds
CleanupRemoves ==
    /\ clean_pc = "called"
    /\ source_dir # target_dir
    /\ output_exists
    /\ removed' = Some(OutputRootOnDisk)
    /\ output_exists' = FALSE
    /\ clean_pc' = "returned"
    /\ UNCHANGED clean_inputs

\* lines 267-268: output_root does not exist
CleanupFindsNothing ==
    /\ clean_pc = "called"
    /\ source_dir # target_dir
    /\ ~output_exists
    /\ clean_pc' = "returned"
    /\ UNCHANGED <<clean_inputs, output_exists, removed>>

CleanNext ==
    \/ CleanupAborts
    \/ CleanupRemoves
    \/ CleanupFindsNothing

CleanSpec == CleanInit /\ [][CleanNext]_vars

\* C36: whatever source_dir, target_dir and output_subdir are, the cleanup
\* does not remove the source directory: the directory it removes, if any,
\* is neither the source directory nor a directory above it.
C36_SourceSurvivesCleanup ==
    removed # None => ~IsRelativeTo(source_dir, removed[1])
====
